---------------------------- MODULE Spec2Model ----------------------------
(***************************************************************************)
(* A model of agent-chat's event bus (src/eventbus.go) and of the          *)
(* WebSocket connection handler that streams its log (src/main.go), and of *)
(* the permission watcher that tails a session file (src/watcher.go).      *)
(*                                                                         *)
(* An event is [id, seq]: seq is Event.Seq, id stands for the rest of the  *)
(* event (type, text, files ...), different for every Publish or           *)
(* LogUserMessage call, so that two distinct events that carry the same    *)
(* sequence number can be told apart.                                      *)
(***************************************************************************)
EXTENDS Integers, Sequences, FiniteSets

(* ------------------------------ bounds -------------------------------- *)

\* Publish and LogUserMessage calls made over a whole run (all process
\* lifetimes together).
MaxPub == 2

\* Process restarts in a run.
MaxRestarts == 1

\* Connections a tab opens in a run.
MaxConnects == 2

\* Capacity of a subscriber mailbox. The program uses 64
\* (src/eventbus.go:261); the model scales it down so that a full mailbox
\* is reached within MaxPub events.
SubCap == 1

(* --------------------------- fixed small sets -------------------------- *)

\* Goroutines that call Publish (tool handlers, the watcher, read loops).
Pubs == {"p1", "p2"}

\* Browser tabs. A tab has at most one connection at a time and reconnects
\* with the cursor it has kept.
Conns == {"c1", "c2"}

\* The tab of the runs with one browser tab.
OneTab == {"c1"}

\* Event.Type of the events of the runs (src/eventbus.go:33).
Types == {"agentMessage", "userMessage"}

\* Event.Text of the events of the runs.
Texts == {"", "ok"}

\* Event.QuickReplies of the events of the runs; <<>> is none.
QuickSets == {<<>>, <<"a">>, <<"b">>}

\* What a caller of Publish supplies: the Type, Text and QuickReplies of
\* the event.
Contents == [type : Types, text : Texts, qr : QuickSets]

\* An agent message without text or quick replies.
Plain == [type |-> "agentMessage", text |-> "", qr |-> <<>>]

NoEvent == [id |-> 0, seq |-> 0, type |-> "none", text |-> "", qr |-> <<>>]

VARIABLES
    \* EventBus (src/eventbus.go:51-66)
    eventLog,      \* eb.eventLog
    nextSeq,       \* eb.nextSeq
    mu,            \* eb.mu: "free" or the publisher that holds it
    subscribers,   \* eb.subscribers: the tabs whose channel is registered
    mailbox,       \* the buffered channel returned by Subscribe, per tab
    logOpen,       \* eb.logFile != nil
    \* the environment
    logFile,       \* the lines of the JSONL file on disk
    durable,       \* AGENT_CHAT_EVENT_LOG is set (src/main.go:114-123)
    restarts,      \* restarts so far
    connects,      \* connections opened so far, per tab
    \* goroutines inside Publish
    ppc,           \* "idle" | "locked" | "write" | "writing" (inside writeToLog,
                   \* holding eb.logMu, while the disk is slow)
    pev,           \* the event variable of the call
    pubCount,      \* Publish calls so far (gives the event its id)
    \* handleWebSocket, per tab
    cpc,           \* "closed" | "connected" | "subscribed" | "replay" | "live" | "closing"
    cursor,        \* the cursor query parameter
    missed,        \* the part of `missed` not yet written
    highSeq,       \* highSeq
    \* the client
    received,      \* the event frames a tab has received, over all its connections
    connStart,     \* Len(received) when the current connection was opened
    \* history, read by the properties only
    published,     \* every event Publish has appended and fanned out, in any lifetime
    baseLen,       \* Len(eventLog) when the current bus was constructed
    baseSeq,       \* nextSeq when the current bus was constructed
    baseFile,      \* the lines of the log file when the current bus was constructed
    returned,      \* ids of the events whose Publish call has returned
    owed,          \* per tab: ids of the events logged with Seq > cursor at its
                   \* Subscribe, and of the events published since
    inWindow,      \* per tab: ids of the events published between its Subscribe
                   \* and its EventsSince
    seqAtSub,      \* per tab: nextSeq at its Subscribe
    overflow,      \* per tab: a Publish found its mailbox full since its Subscribe
    \* pending acks (src/eventbus.go:59-60)
    pending,       \* eb.pending: the tokens registered; a token's channel is ackCh[token]
    ackCh,         \* the channel made by CreateAck, per token (capacity 1)
    created,       \* CreateAck calls so far (the next call returns token created + 1)
    \* goroutines inside ResolveAck
    rpc,           \* "idle" | "unlocked" (past eb.ackMu.Unlock())
    rtok,          \* id
    rres,          \* result
    rok,           \* ok
    rnum,          \* serial number of the call
    \* history of the acks, read by the properties only
    resolves,      \* ResolveAck calls so far
    calls,         \* the ResolveAck calls that have returned: [n, tok, res, ret, known]
    sentOn,        \* per token: the values the select of ResolveAck has sent on its channel
    got,           \* per token: the values the waiter has read from its channel
    await,         \* per token, the tool handler that created it: "none" | "wait" | "got" | "cancelled"
    \* the user message queue (src/eventbus.go:62)
    msgQueue,      \* eb.msgQueue, a buffered channel
    qpc,           \* per producer, inside PushMessage: "idle" | "full" | "send"
    qmsg,          \* per producer: msg
    pushed,        \* PushMessage calls so far (gives the message its id)
    dpc,           \* the consumer: "idle" | "wait" (in the first select of WaitForMessages) | "loop"
    msgs,          \* msgs
    mres,          \* what the last WaitForMessages returned: "none" | "msgs" | "cancelled"
    \* history of the queue, read by the properties only
    lastPush,      \* per producer: its last PushMessage that found the queue full and has returned
    pushSnap,      \* per producer: the queue as its current PushMessage found it
    pushAlone,     \* per producer: nobody else has touched the queue during its current PushMessage
    lastDrain,     \* the last DrainMessages or WaitForMessages that has returned
    drainSnap,     \* the queue as the current drain found it
    drainAlone,    \* the producer has not touched the queue during the current drain
    drainCall,     \* the call the consumer is in, or was in last: "drain" | "wait"
    delivered,     \* per message: the calls that have returned it, as a count
    dropped,       \* the messages PushMessage has removed from a full queue
    \* time and cancellation
    now,           \* the clock, in poll intervals of WaitForSubscriber (100 ms)
    ctxDone,       \* per blocking call: its caller's context is cancelled
    \* the goroutine inside WaitForSubscriber
    wpc,           \* "idle" | "poll" | "select" | "done"
    tShort,        \* when the time.After(100 * time.Millisecond) of the current select fires
    tLong,         \* when the time.After(30 * time.Second) of the current select fires
    wres,          \* what the call returned: "none" | "ok" | "timeout" | "cancelled"
    \* history of the wait, read by the properties only
    wStart,        \* the clock when the call began
    wEmpty0,       \* the subscriber set was empty when the call began
    subSeen,       \* a Subscribe has completed since the call began
    unsubSeen,     \* an Unsubscribe has completed since the call began
    \* the permission watcher (src/watcher.go:23-35)
    wpending,      \* w.pending: per tool-use id, the timer of its entry (0: no entry)
    timers,        \* the timers made by time.AfterFunc, in order of creation:
                   \* [id, due, st], st "armed" | "stopped" | "fired" (the callback
                   \* has started) | "checked" (past its unlock, about to publish) | "done"
    wOut,          \* the events the watcher has passed to bus.Publish, in order
    nlines,        \* lines processed so far
    \* history of the watcher, read by the properties only
    wline,         \* the line processed last
    uses,          \* per id: tool_use lines processed
    wstopped,      \* Run has taken "case <-ctx.Done()", run clearPending and returned
    early,         \* per id: "yes" once a tool_result line was processed while the id
                   \* had an entry and none of its timers had fired; "again" once a
                   \* tool_use line for the id was processed after that; "no" before
    \* the watcher's reading of the session file (src/watcher.go:48-99)
    wfile,         \* the bytes of the watched file
    wstarted,      \* Run has opened the file and sought to its end
    wpos,          \* the bytes of the file the reader has consumed
    wproc,         \* the lines passed to processLine, in order
    \* history of the reading, read by the properties only
    wstart,        \* the length of the file when Run sought to its end
    polled,        \* readNewLines has run since the last append
    \* the read loop of handleWebSocket, per tab (src/main.go:381-421)
    frame,         \* "none" | "read" (a message frame is decoded) | "push" (inside
                   \* PushMessage) | "publish" (PushMessage has returned, Publish
                   \* is to be called or is running) | "ack" (an ack frame is
                   \* decoded) | "reply" (ResolveAck has returned, Publish is to
                   \* be called or is running) | "notify" (Publish has returned
                   \* for a message frame, the notice is to be sent)
    fack,          \* the ack frame the read loop has decoded: [id, message]
    \* the quick replies (src/eventbus.go:56)
    lastQuickReplies, \* eb.lastQuickReplies (<<>>: nil)
    \* history of the quick replies, read by the properties only
    atStop,        \* when the last bus stopped: [qr: its lastQuickReplies, clean:
                   \* no Publish or LogUserMessage call was running]
    \* the connection of a tab and its writer goroutine (src/main.go:340-378)
    writeCh,       \* writeCh, a buffered channel: the notices not yet written
    wtr,           \* the writer goroutine of the tab's current or last connection:
                   \* "none" (not started) | "run" | "done" (it has returned)
    orphan,        \* what the channels of the tab's last connection held for the
                   \* writer when the handler returned: frames it can still take
    \* the client
    wire           \* the frames written to the tab's current connection, in order:
                   \* [by: the goroutine that wrote it, type], and for the
                   \* connected frame the fields it has and its pendingAckId

busVars  == <<eventLog, nextSeq, mu, subscribers, mailbox, logOpen>>
envVars  == <<logFile, durable, restarts, connects>>
pubVars  == <<ppc, pev, pubCount>>
connVars == <<cpc, cursor, missed, highSeq, received, connStart>>
histVars == <<published, baseLen, baseSeq, baseFile, returned, owed, inWindow, seqAtSub, overflow>>
ackVars  == <<pending, ackCh, created, rpc, rtok, rres, rok, rnum, resolves, calls, sentOn, got, await>>
queueVars == <<msgQueue, qpc, qmsg, pushed, dpc, msgs, mres,
               lastPush, pushSnap, pushAlone, lastDrain, drainSnap, drainAlone,
               drainCall, delivered, dropped>>
waitVars == <<now, ctxDone, wpc, tShort, tLong, wres, wStart, wEmpty0>>
waitHist == <<subSeen, unsubSeen>>
chatVars == <<busVars, envVars, pubVars, connVars, histVars>>
tailVars == <<wfile, wstarted, wpos, wproc, wstart, polled>>
watchVars == <<wpending, timers, wOut, nlines, wline, uses, early, wstopped, tailVars>>
frameVars == <<frame, fack>>
replyVars == <<lastQuickReplies, atStop>>
wireVars == <<writeCh, wtr, orphan, wire>>
vars     == <<chatVars, ackVars, queueVars, waitVars, waitHist, watchVars, frameVars, replyVars, wireVars>>

(* ------------------------------ helpers ------------------------------- *)

Max(a, b) == IF a >= b THEN a ELSE b

Range(s) == {s[i] : i \in 1..Len(s)}

Ids(s) == {s[i].id : i \in 1..Len(s)}

RECURSIVE MaxSeqOf(_)
MaxSeqOf(s) == IF s = <<>> THEN 0 ELSE Max(Head(s).seq, MaxSeqOf(Tail(s)))

(* ----------------------- the durable log file ------------------------- *)

\* json.Marshal(event) plus '\n' (writeToLog): one line of the file. The
\* Seq field has no omitempty tag, so a sequence of 0 is written too.
\* The fields tagged omitempty that json.Marshal writes: text and
\* quick_replies, each when it is not empty (src/eventbus.go:35, 37).
Present(e) ==
    (IF e.text # "" THEN {"text"} ELSE {}) \cup (IF e.qr # <<>> THEN {"quick_replies"} ELSE {})

Marshal(e) ==
    [kind |-> "json", id |-> e.id, seq |-> e.seq, type |-> e.type,
     has |-> Present(e), text |-> e.text, qr |-> e.qr]

\* What the file holds after a Write, by how the Write went:
\*   "ok"       the line, whole, within the scanner's buffer on reload;
\*   "oversize" the line, whole, but longer than the 1 MiB that
\*              loadEventLog gives its scanner (the event's JSON is that big);
\*   "torn"     a fragment that is no JSON (the Write, or the process,
\*              stopped part-way);
\*   "fail"     nothing.
Written(e, how) ==
    CASE how = "ok"       -> <<Marshal(e)>>
      [] how = "oversize" -> <<[Marshal(e) EXCEPT !.kind = "oversize"]>>
      [] how = "torn"     -> <<[Marshal(e) EXCEPT !.kind = "malformed"]>>
      [] OTHER            -> <<>>

\* json.Unmarshal(scanner.Bytes(), &ev) returns no error.
Parses(line) == line.kind # "malformed"

\* json.Unmarshal into a zero Event: a field the line does not have
\* stays at its zero value.
Unmarshal(line) ==
    [id |-> line.id, seq |-> line.seq, type |-> line.type,
     text |-> IF "text" \in line.has THEN line.text ELSE "",
     qr |-> IF "quick_replies" \in line.has THEN line.qr ELSE <<>>]

\* loadEventLog's scanner loop: a line that does not parse is skipped; a
\* line longer than the scanner's buffer (1 MiB, scanner.Buffer) makes
\* scanner.Scan return false, which ends the loop with the rest unread.
RECURSIVE LoadEvents(_)
LoadEvents(lines) ==
    IF lines = <<>> THEN <<>>
    ELSE IF Head(lines).kind = "oversize" THEN <<>>
    ELSE IF Parses(Head(lines)) THEN <<Unmarshal(Head(lines))>> \o LoadEvents(Tail(lines))
    ELSE LoadEvents(Tail(lines))

\* loadEventLog's maxSeq: the highest Seq among the events it parsed,
\* starting from 0.
LoadMaxSeq(lines) == MaxSeqOf(LoadEvents(lines))

\* loadEventLog's update of lastQR for one parsed event: set when the
\* event carries quick replies, then cleared when it is a userMessage.
LoadedQuickReplies(last, ev) ==
    IF ev.type = "userMessage" THEN <<>>
    ELSE IF ev.qr # <<>> THEN ev.qr
    ELSE last

\* loadEventLog's lastQR: the update applied to the parsed events in
\* file order, starting from nil.
RECURSIVE ReplayQuickReplies(_, _)
ReplayQuickReplies(events, last) ==
    IF events = <<>> THEN last
    ELSE ReplayQuickReplies(Tail(events), LoadedQuickReplies(last, Head(events)))

LoadQuickReplies(lines) == ReplayQuickReplies(LoadEvents(lines), <<>>)

(* ----------------------------- EventsSince ----------------------------- *)

\* The scan of EventsSince: the index (1-based) of the first event with
\* Seq > cursor, or Len(log) + 1 when the loop reaches the last event
\* without finding one.
RECURSIVE ScanStart(_, _, _)
ScanStart(log, c, i) ==
    IF i > Len(log) THEN Len(log) + 1
    ELSE IF log[i].seq > c THEN i
    ELSE ScanStart(log, c, i + 1)

EventsSince(log, c) ==
    IF Len(log) = 0 THEN <<>>
    ELSE SubSeq(log, ScanStart(log, c, 1), Len(log))

(* ------------------------------- Publish ------------------------------ *)

\* The read loop of a tab is one goroutine: it is the tab's producer when
\* it calls PushMessage and the tab's publisher when it calls Publish.
TabOf(g) == IF g \in {"p1", "q1", "r1"} THEN "c1" ELSE "c2"

\* The read loop of tab c moves on from position `from` to position `to`;
\* a goroutine that is not handling a frame has no position to move.
FrameAt(f, c, from, to) == [f EXCEPT ![c] = IF @ = from THEN to ELSE @]

\* Mutant: the lock excludes nobody.
CanLockNoMutex == TRUE

\* eb.mu.Lock() returns only when nobody holds the lock.
CanLock == mu = "free"

\* Mutant: one full channel drops the event for every subscriber.
FanOutAllOrNothing(mb, subs, e) ==
    [c \in Conns |->
        IF c \in subs /\ \A x \in subs : Len(mb[x]) < SubCap THEN Append(mb[c], e) ELSE mb[c]]

\* The fan-out loop of Publish: a non-blocking send to every registered
\* channel; a full channel drops the event for that subscriber.
FanOut(mb, subs, e) ==
    [c \in Conns |->
        IF c \in subs /\ Len(mb[c]) < SubCap THEN Append(mb[c], e) ELSE mb[c]]

\* Publish(event), up to the increment: eb.mu.Lock(); eb.nextSeq++, as
\* one of at most n calls of the run.
PublishLockUpTo(p, k, n) ==
    /\ ppc[p] = "idle"
    /\ pubCount < n
    /\ CanLock
    /\ mu' = p
    /\ nextSeq' = nextSeq + 1
    /\ pubCount' = pubCount + 1
    /\ pev' = [pev EXCEPT ![p] = [id |-> pubCount + 1, seq |-> 0, type |-> k.type,
                                  text |-> k.text, qr |-> k.qr]]
    /\ ppc' = [ppc EXCEPT ![p] = "locked"]
    /\ UNCHANGED <<wireVars, frameVars, replyVars, watchVars, ackVars, queueVars, waitVars, waitHist, eventLog, subscribers, mailbox, logOpen, envVars, connVars, histVars>>

\* Publish of an event of content k, in a run of at most MaxPub calls.
PublishLockWith(p, k) == PublishLockUpTo(p, k, MaxPub)

\* Publish of an agent message without text or quick replies.
PublishLock(p) == PublishLockWith(p, Plain)

\* Mutant: a userMessage event does not clear the quick replies.
QuickRepliesKept(last, e) == IF e.qr # <<>> THEN e.qr ELSE last

\* Publish's update of eb.lastQuickReplies: set when the event carries
\* quick replies, then cleared when the event is a userMessage.
QuickRepliesAfter(last, e) ==
    IF e.type = "userMessage" THEN <<>>
    ELSE IF e.qr # <<>> THEN e.qr
    ELSE last

\* Mutant: Publish keeps eb.mu while it writes to the log file.
MuHeldForWrite(m, p) == m

\* eb.mu.Unlock() at the end of the fan-out loop, before writeToLog.
MuAfterFanOut(m, p) == IF m = p THEN "free" ELSE m

\* Publish, the rest of the critical section: event.Seq = eb.nextSeq, the
\* append to eb.eventLog, the update of eb.lastQuickReplies, the fan-out,
\* eb.mu.Unlock().
PublishAppend(p) ==
    /\ ppc[p] = "locked"
    /\ LET e == [pev[p] EXCEPT !.seq = nextSeq] IN
        /\ pev' = [pev EXCEPT ![p] = e]
        /\ eventLog' = Append(eventLog, e)
        /\ lastQuickReplies' = QuickRepliesAfter(lastQuickReplies, e)
        /\ mailbox' = FanOut(mailbox, subscribers, e)
        /\ published' = published \cup {e}
        /\ owed' = [c \in Conns |->
                      IF c \in subscribers THEN owed[c] \cup {e.id} ELSE owed[c]]
        /\ inWindow' = [c \in Conns |->
                      IF cpc[c] = "subscribed" THEN inWindow[c] \cup {e.id}
                      ELSE inWindow[c]]
        /\ overflow' = [c \in Conns |->
                      overflow[c] \/ (c \in subscribers /\ Len(mailbox[c]) >= SubCap)]
    /\ mu' = MuAfterFanOut(mu, p)
    /\ ppc' = [ppc EXCEPT ![p] = "write"]
    /\ UNCHANGED <<wireVars, frameVars, atStop, watchVars, ackVars, queueVars, waitVars, waitHist, nextSeq, subscribers, logOpen, envVars, pubCount, connVars,
                   baseLen, baseSeq, baseFile, returned, seqAtSub>>

\* eb.logMu.Lock() returns only when no goroutine is inside writeToLog.
LogFree == \A q \in Pubs : ppc[q] # "writing"

\* eb.writeToLog(event), after the unlock: without a log file nothing is
\* written; with one, the Write goes one of the ways in `hows`, and its
\* error, if any, is dropped.
WriteToLog(p, hows) ==
    /\ ppc[p] = "write"
    /\ LogFree
    /\ \E how \in hows :
        logFile' = IF logOpen THEN logFile \o Written(pev[p], how) ELSE logFile
    /\ ppc' = [ppc EXCEPT ![p] = "idle"]
    /\ pev' = [pev EXCEPT ![p] = NoEvent]
    /\ returned' = returned \cup {pev[p].id}
    /\ frame' = FrameAt(FrameAt(frame, TabOf(p), "publish", "notify"), TabOf(p), "reply", "none")
    /\ UNCHANGED <<wireVars, fack, replyVars, watchVars, ackVars, queueVars, waitVars, waitHist, busVars, durable, restarts, connects, pubCount, connVars,
                   published, baseLen, baseSeq, baseFile, owed, inWindow, seqAtSub, overflow>>

\* LogUserMessage up to the unlock: a userMessage event with no sequence
\* number (Seq 0) is appended to eb.eventLog under eb.mu; nothing is sent
\* to the subscribers. writeToLog follows, as in Publish.
\* Mutant: LogUserMessage sends its event to the subscribers as Publish does.
LogOnlyBroadcast(mb, subs, e) == FanOut(mb, subs, e)

\* What LogUserMessage sends to the subscribers' channels: nothing, it has
\* no fan-out loop.
LogOnlySent(mb, subs, e) == mb

LogUserMessage(p) ==
    /\ ppc[p] = "idle"
    /\ pubCount < MaxPub
    /\ CanLock
    /\ LET e == [id |-> pubCount + 1, seq |-> 0, type |-> "userMessage", text |-> "ok",
                 qr |-> <<>>] IN
        /\ eventLog' = Append(eventLog, e)
        /\ pev' = [pev EXCEPT ![p] = e]
        /\ mailbox' = LogOnlySent(mailbox, subscribers, e)
    /\ pubCount' = pubCount + 1
    /\ ppc' = [ppc EXCEPT ![p] = "write"]
    /\ UNCHANGED <<wireVars, frameVars, replyVars, watchVars, ackVars, queueVars, waitVars, waitHist, nextSeq, mu, subscribers, logOpen, envVars, connVars, histVars>>

(* --------------------------- handleWebSocket --------------------------- *)

\* The highest sequence number a tab has received (0 when none): what the
\* client of the claims sends as its cursor.
LastSeen(c) == MaxSeqOf(received[c])

\* Capacity of writeCh. The program uses 16 (src/main.go:342); the model
\* scales it down so that a full channel is reached within MaxPub frames.
WriteCap == 1

\* bus.PendingAckID(): the first id the range over eb.pending yields (any
\* of them: the order of a map's range is not fixed), "" (0) when it is
\* empty.
PendingAckIDs(reg) == IF reg = {} THEN {0} ELSE reg

\* The connected frame: "type", and "pendingAckId" when the id is not "".
Handshake(id) ==
    [by |-> "handler", type |-> "connected",
     has |-> IF id # 0 THEN {"type", "pendingAckId"} ELSE {"type"},
     pendingAckId |-> id]

\* The frame of an event, and the messageQueued frame.
EventFrame(g) == [by |-> g, type |-> "event"]
NoticeFrame(g) == [by |-> g, type |-> "messageQueued"]

\* The upgrade, the cursor parameter and the connected handshake.
Connect(c, cur) ==
    /\ cpc[c] = "closed"
    /\ c \notin subscribers
    /\ connects[c] < MaxConnects
    /\ connects' = [connects EXCEPT ![c] = @ + 1]
    /\ cpc' = [cpc EXCEPT ![c] = "connected"]
    /\ cursor' = [cursor EXCEPT ![c] = cur]
    /\ connStart' = [connStart EXCEPT ![c] = Len(received[c])]
    /\ highSeq' = [highSeq EXCEPT ![c] = 0]
    /\ missed' = [missed EXCEPT ![c] = <<>>]
    /\ owed' = [owed EXCEPT ![c] = {}]
    /\ overflow' = [overflow EXCEPT ![c] = FALSE]
    /\ inWindow' = [inWindow EXCEPT ![c] = {}]
    /\ seqAtSub' = [seqAtSub EXCEPT ![c] = 0]
    /\ \E id \in PendingAckIDs(pending) : wire' = [wire EXCEPT ![c] = <<Handshake(id)>>]
    /\ writeCh' = [writeCh EXCEPT ![c] = <<>>]
    /\ wtr' = [wtr EXCEPT ![c] = "none"]
    /\ orphan' = [orphan EXCEPT ![c] = 0]
    /\ UNCHANGED <<frameVars, replyVars, watchVars, ackVars, queueVars, waitVars, waitHist, busVars, logFile, durable, restarts, pubVars, received,
                   published, baseLen, baseSeq, baseFile, returned>>

\* sub := bus.Subscribe(): a new channel, registered under eb.mu.
Subscribe(c) ==
    /\ cpc[c] = "connected"
    /\ CanLock
    /\ subscribers' = subscribers \cup {c}
    /\ mailbox' = [mailbox EXCEPT ![c] = <<>>]
    /\ cpc' = [cpc EXCEPT ![c] = "subscribed"]
    /\ owed' = [owed EXCEPT ![c] =
                  {eventLog[i].id : i \in {j \in 1..Len(eventLog) :
                                              eventLog[j].seq > cursor[c]}}]
    /\ seqAtSub' = [seqAtSub EXCEPT ![c] = nextSeq]
    /\ subSeen' = TRUE
    /\ UNCHANGED unsubSeen
    /\ UNCHANGED <<wireVars, frameVars, replyVars, watchVars, ackVars, queueVars, waitVars, eventLog, nextSeq, mu, logOpen, envVars, pubVars,
                   cursor, missed, highSeq, received, connStart,
                   published, baseLen, baseSeq, baseFile, returned, inWindow, overflow>>

\* highSeq := cursor; if len(missed) > 0 { highSeq = missed[len(missed)-1].Seq }
HighSeqOf(cur, m) == IF Len(m) > 0 THEN m[Len(m)].seq ELSE cur

\* missed := bus.EventsSince(cursor), under eb.mu.RLock(). highSeq depends
\* on cursor and missed alone, so it is set here, before the replay loop.
ReadHistory(c) ==
    /\ cpc[c] = "subscribed"
    /\ CanLock
    /\ LET m == EventsSince(eventLog, cursor[c]) IN
        /\ missed' = [missed EXCEPT ![c] = m]
        /\ highSeq' = [highSeq EXCEPT ![c] = HighSeqOf(cursor[c], m)]
    /\ cpc' = [cpc EXCEPT ![c] = "replay"]
    /\ UNCHANGED <<wireVars, frameVars, replyVars, watchVars, ackVars, queueVars, waitVars, waitHist, busVars, envVars, pubVars, cursor, received, connStart, histVars>>

\* One turn of the replay loop: conn.WriteMessage of the next missed event.
ReplayWrite(c) ==
    /\ cpc[c] = "replay"
    /\ missed[c] # <<>>
    /\ received' = [received EXCEPT ![c] = Append(@, Head(missed[c]))]
    /\ missed' = [missed EXCEPT ![c] = Tail(@)]
    /\ wire' = [wire EXCEPT ![c] = Append(@, EventFrame("handler"))]
    /\ UNCHANGED <<writeCh, wtr, orphan, frameVars, replyVars, watchVars, ackVars, queueVars, waitVars, waitHist, busVars, envVars, pubVars, cpc, cursor, highSeq, connStart, histVars>>

\* The replay loop is over: the writer goroutine and the read loop start.
StartWriter(c) ==
    /\ cpc[c] = "replay"
    /\ missed[c] = <<>>
    /\ cpc' = [cpc EXCEPT ![c] = "live"]
    /\ wtr' = [wtr EXCEPT ![c] = "run"]
    /\ UNCHANGED <<writeCh, orphan, wire, frameVars, replyVars, watchVars, ackVars, queueVars, waitVars, waitHist, busVars, envVars, pubVars, cursor, missed, highSeq,
                   received, connStart, histVars>>

\* The writer's test on a live event: "if event.Seq <= highSeq { continue }".
Skips(e, h) == e.seq <= h

\* The writer goroutine takes one event from sub and writes it unless it
\* is skipped.
WriterStep(c) ==
    /\ cpc[c] = "live"
    /\ wtr[c] = "run"
    /\ mailbox[c] # <<>>
    /\ LET e == Head(mailbox[c]) IN
        /\ received' = [received EXCEPT ![c] =
                        IF Skips(e, highSeq[c]) THEN @ ELSE Append(@, e)]
        /\ wire' = [wire EXCEPT ![c] =
                        IF Skips(e, highSeq[c]) THEN @ ELSE Append(@, EventFrame("writer"))]
    /\ mailbox' = [mailbox EXCEPT ![c] = Tail(@)]
    /\ UNCHANGED <<writeCh, wtr, orphan, frameVars, replyVars, watchVars, ackVars, queueVars, waitVars, waitHist, eventLog, nextSeq, mu, subscribers, logOpen, envVars, pubVars,
                   cpc, cursor, missed, highSeq, connStart, histVars>>

\* The transport fails or the client closes: the next read or write of
\* the handler returns an error and the handler returns.
Disconnect(c) ==
    /\ cpc[c] \in {"subscribed", "replay", "live"}
    /\ cpc' = [cpc EXCEPT ![c] = "closing"]
    /\ UNCHANGED <<wireVars, frameVars, replyVars, watchVars, ackVars, queueVars, waitVars, waitHist, busVars, envVars, pubVars, cursor, missed, highSeq,
                   received, connStart, histVars>>

\* What the writer goroutine of tab c can still take from its two
\* channels and write: the events in sub it does not skip, and the
\* notices in writeCh.
Leftover(c) ==
    Cardinality({i \in 1..Len(mailbox[c]) : ~Skips(mailbox[c][i], highSeq[c])})
    + Len(writeCh[c])

\* The deferred bus.Unsubscribe(sub), under eb.mu: the channel is removed
\* from eb.subscribers and is not closed; the handler returns, and
\* writeCh is not closed either.
Unsubscribe(c) ==
    /\ cpc[c] = "closing"
    /\ CanLock
    /\ subscribers' = subscribers \ {c}
    /\ mailbox' = [mailbox EXCEPT ![c] = <<>>]
    /\ missed' = [missed EXCEPT ![c] = <<>>]
    /\ cpc' = [cpc EXCEPT ![c] = "closed"]
    /\ unsubSeen' = TRUE
    /\ UNCHANGED subSeen
    /\ orphan' = [orphan EXCEPT ![c] = IF wtr[c] = "run" THEN Leftover(c) ELSE 0]
    /\ writeCh' = [writeCh EXCEPT ![c] = <<>>]
    /\ UNCHANGED <<wtr, wire, frameVars, replyVars, watchVars, ackVars, queueVars, waitVars, eventLog, nextSeq, mu, logOpen, envVars, pubVars,
                   cursor, highSeq, received, connStart, histVars>>

(* ------------------------------ restart -------------------------------- *)

\* The process stops (at any moment: exit, kill, crash) and is started
\* again: every goroutine and connection is gone, and main builds a new
\* bus, NewEventBusWithLog(path) when a log file is configured and
\* NewEventBus() otherwise.
Restart ==
    /\ restarts < MaxRestarts
    /\ restarts' = restarts + 1
    /\ eventLog' = IF durable THEN LoadEvents(logFile) ELSE <<>>
    /\ nextSeq' = IF durable THEN LoadMaxSeq(logFile) ELSE 0
    /\ logOpen' = durable
    /\ mu' = "free"
    /\ subscribers' = {}
    /\ mailbox' = [c \in Conns |-> <<>>]
    /\ ppc' = [p \in Pubs |-> "idle"]
    /\ pev' = [p \in Pubs |-> NoEvent]
    /\ cpc' = [c \in Conns |-> "closed"]
    /\ missed' = [c \in Conns |-> <<>>]
    /\ baseLen' = Len(eventLog')
    /\ baseSeq' = nextSeq'
    /\ baseFile' = logFile
    /\ lastQuickReplies' = IF durable THEN LoadQuickReplies(logFile) ELSE <<>>
    /\ atStop' = [qr |-> lastQuickReplies, clean |-> \A p \in Pubs : ppc[p] = "idle"]
    /\ writeCh' = [c \in Conns |-> <<>>]
    /\ wtr' = [c \in Conns |-> "none"]
    /\ orphan' = [c \in Conns |-> 0]
    /\ wire' = [c \in Conns |-> <<>>]
    /\ UNCHANGED <<frameVars, watchVars, ackVars, queueVars, waitVars, waitHist, logFile, durable, connects, pubCount, cursor, highSeq, received, connStart,
                   published, returned, owed, inWindow, seqAtSub, overflow>>

(* ---------------------------- pending acks ----------------------------- *)

\* CreateAck calls in a run.
MaxAcks == 1

\* ResolveAck calls in a run.
MaxResolves == 3

\* Capacity of an ack channel: make(chan string, 1).
AckChanCap == 1

\* Goroutines that call ResolveAck (the read loops of the connections).
Resolvers == {"r1", "r2"}

\* The result strings a caller passes ("ack", "ack:<message>").
Results == {"ack", "ack:ok"}

\* The tokens a caller may present. CreateAck returns 1, 2, ... in turn
\* (uuid.New() never returns the same id twice); MaxAcks + 1 is a token
\* that is never created.
Tokens == 1..(MaxAcks + 1)

\* CreateAck: a new id and a new channel, registered under eb.ackMu.
CreateAck ==
    /\ created < MaxAcks
    /\ created' = created + 1
    /\ pending' = pending \cup {created + 1}
    /\ ackCh' = [ackCh EXCEPT ![created + 1] = <<>>]
    /\ await' = [await EXCEPT ![created + 1] = "wait"]
    /\ UNCHANGED <<wireVars, frameVars, replyVars, chatVars, waitVars, waitHist, watchVars, queueVars, rpc, rtok, rres, rok, rnum, resolves, calls, sentOn, got>>

\* ch, ok := eb.pending[id]
Found(reg, tok) == tok \in reg

\* Mutant: the entry is left in the registry.
RemainingNoDelete(reg, tok, ok) == reg

\* if ok { delete(eb.pending, id) }
Remaining(reg, tok, ok) == IF ok THEN reg \ {tok} ELSE reg

\* ResolveAck, the section under eb.ackMu: the lookup and the delete.
ResolveAckLookup(r, tok, res) ==
    /\ rpc[r] = "idle"
    /\ resolves < MaxResolves
    /\ resolves' = resolves + 1
    /\ rnum' = [rnum EXCEPT ![r] = resolves + 1]
    /\ rtok' = [rtok EXCEPT ![r] = tok]
    /\ rres' = [rres EXCEPT ![r] = res]
    /\ rok' = [rok EXCEPT ![r] = Found(pending, tok)]
    /\ pending' = Remaining(pending, tok, Found(pending, tok))
    /\ rpc' = [rpc EXCEPT ![r] = "unlocked"]
    /\ UNCHANGED <<wireVars, frameVars, replyVars, chatVars, waitVars, waitHist, watchVars, queueVars, ackCh, created, calls, sentOn, got, await>>

\* select { case ch <- result: default: }: whether the send goes through.
CanSend(ch) == Len(ch) < AckChanCap

\* Mutant: true whatever the lookup found.
ReturnValueAlwaysTrue(ok) == TRUE

\* The value ResolveAck returns: false after "if !ok", true after the select.
ReturnValue(ok) == ok

\* Mutant: the read loop publishes only when ResolveAck returned true.
AfterResolveChecked(ret) == IF ret THEN "reply" ELSE "none"

\* Where the read loop goes after bus.ResolveAck(m.ID, result) returned
\* ret: the call is a statement, its value is dropped, and the Publish
\* follows.
AfterResolve(ret) == "reply"

\* ResolveAck after the unlock: "if !ok { return false }", else the
\* non-blocking send of result on ch and "return true".
ResolveAckReturn(r) ==
    /\ rpc[r] = "unlocked"
    /\ LET t == rtok[r]
           sends == rok[r] /\ CanSend(ackCh[t]) IN
        /\ ackCh' = IF sends THEN [ackCh EXCEPT ![t] = Append(@, rres[r])] ELSE ackCh
        /\ sentOn' = IF sends THEN [sentOn EXCEPT ![t] = Append(@, rres[r])] ELSE sentOn
        /\ calls' = calls \cup {[n |-> rnum[r], tok |-> t, res |-> rres[r],
                                 ret |-> ReturnValue(rok[r]), at |-> Cardinality(calls)]}
    /\ rpc' = [rpc EXCEPT ![r] = "idle"]
    /\ frame' = FrameAt(frame, TabOf(r), "ack", AfterResolve(ReturnValue(rok[r])))
    /\ UNCHANGED <<wireVars, fack, replyVars, chatVars, waitVars, waitHist, watchVars, queueVars, pending, created, rtok, rres, rok, rnum, resolves, got, await>>

\* The tool handler that called CreateAck reads its handle's channel:
\* "case result := <-ack.Ch".
WaiterReceive(t) ==
    /\ await[t] = "wait"
    /\ ackCh[t] # <<>>
    /\ await' = [await EXCEPT ![t] = "got"]
    /\ got' = [got EXCEPT ![t] = Append(@, Head(ackCh[t]))]
    /\ ackCh' = [ackCh EXCEPT ![t] = Tail(@)]
    /\ UNCHANGED <<wireVars, frameVars, replyVars, chatVars, waitVars, waitHist, watchVars, queueVars, pending, created, rpc, rtok, rres, rok, rnum,
                   resolves, calls, sentOn>>

\* Mutant: the cancelled handler takes its entry out of the registry.
PendingAfterCancelRemoved(reg, t) == reg \ {t}

\* eb.pending after the handler's wait was cancelled: the handler returns
\* without a call on the bus, so the entry stays.
PendingAfterCancel(reg, t) == reg

\* The tool handler's select, "case <-ctx.Done()": it returns the
\* cancellation error (src/tools.go:333-337).
AckWaitCancelled(t) ==
    /\ await[t] = "wait"
    /\ ctxDone["ack"]
    /\ await' = [await EXCEPT ![t] = "cancelled"]
    /\ pending' = PendingAfterCancel(pending, t)
    /\ UNCHANGED <<wireVars, frameVars, replyVars, chatVars, waitVars, waitHist, watchVars, queueVars, ackCh, created, rpc, rtok, rres,
                   rok, rnum, resolves, calls, sentOn, got>>

InitAck ==
    /\ pending = {}
    /\ ackCh = [t \in Tokens |-> <<>>]
    /\ created = 0
    /\ rpc = [r \in Resolvers |-> "idle"]
    /\ rtok = [r \in Resolvers |-> 0]
    /\ rres = [r \in Resolvers |-> ""]
    /\ rok = [r \in Resolvers |-> FALSE]
    /\ rnum = [r \in Resolvers |-> 0]
    /\ resolves = 0
    /\ calls = {}
    /\ sentOn = [t \in Tokens |-> <<>>]
    /\ got = [t \in Tokens |-> <<>>]
    /\ await = [t \in Tokens |-> "none"]

(* ------------------------ the user message queue ----------------------- *)

\* Capacity of eb.msgQueue. The program uses 256 (src/eventbus.go:73, 91);
\* the model scales it down so that a full queue is reached within
\* MaxPush messages.
QueueCap == 2

\* PushMessage calls in a run.
MaxPush == 4

NoPush == [snap |-> <<>>, m |-> 0, alone |-> FALSE, after |-> <<>>]

NoDrain == [call |-> "none", result |-> <<>>, snap |-> <<>>, alone |-> FALSE, left |-> <<>>]

\* Goroutines that call PushMessage (the read loops of the connections).
Producers == {"q1", "q2"}

\* pushAlone once goroutine p has touched the queue: every other
\* producer's current call is no longer alone.
OthersNotAlone(p) == [q \in Producers |-> IF q = p THEN pushAlone[q] ELSE FALSE]

\* PushMessage, the outer select: "case eb.msgQueue <- msg" when the
\* channel has room (the call returns), "default" when it is full. A
\* message is its serial number.
PushMessage(p) ==
    /\ qpc[p] = "idle"
    /\ pushed < MaxPush
    /\ pushed' = pushed + 1
    /\ IF Len(msgQueue) < QueueCap
        THEN /\ msgQueue' = Append(msgQueue, pushed + 1)
             /\ drainAlone' = FALSE
             /\ pushAlone' = OthersNotAlone(p)
             /\ frame' = FrameAt(frame, TabOf(p), "read", "publish")
             /\ UNCHANGED <<qpc, qmsg, pushSnap>>
        ELSE /\ qpc' = [qpc EXCEPT ![p] = "full"]
             /\ qmsg' = [qmsg EXCEPT ![p] = pushed + 1]
             /\ pushSnap' = [pushSnap EXCEPT ![p] = msgQueue]
             /\ pushAlone' = [pushAlone EXCEPT ![p] = TRUE]
             /\ frame' = FrameAt(frame, TabOf(p), "read", "push")
             /\ UNCHANGED <<msgQueue, drainAlone>>
    /\ UNCHANGED <<wireVars, fack, replyVars, chatVars, waitVars, waitHist, watchVars, ackVars, dpc, msgs, mres, lastPush, lastDrain, drainSnap,
                   drainCall, delivered, dropped>>

\* Mutant: the newest entry is dropped.
DropNewest(q) == IF q # <<>> THEN SubSeq(q, 1, Len(q) - 1) ELSE q

\* The inner select: "case <-eb.msgQueue" takes the oldest entry;
\* "default" when the channel has been emptied meanwhile.
DropOldest(q) == IF q # <<>> THEN Tail(q) ELSE q

\* PushMessage, the inner select of the default branch.
PushMessageDrop(p) ==
    /\ qpc[p] = "full"
    /\ msgQueue' = DropOldest(msgQueue)
    /\ dropped' = IF msgQueue # <<>> THEN dropped \cup {Head(msgQueue)} ELSE dropped
    /\ qpc' = [qpc EXCEPT ![p] = "send"]
    /\ drainAlone' = FALSE
    /\ pushAlone' = OthersNotAlone(p)
    /\ UNCHANGED <<wireVars, frameVars, replyVars, chatVars, waitVars, waitHist, watchVars, ackVars, qmsg, pushed, dpc, msgs, mres,
                   lastPush, pushSnap, lastDrain, drainSnap, drainCall, delivered>>

\* A send on the channel can proceed: the buffer is not full.
HasRoom(q) == Len(q) < QueueCap

\* PushMessage, the last statement of the default branch: the blocking
\* send "eb.msgQueue <- msg".
PushMessageSend(p) ==
    /\ qpc[p] = "send"
    /\ HasRoom(msgQueue)
    /\ msgQueue' = Append(msgQueue, qmsg[p])
    /\ lastPush' = [lastPush EXCEPT ![p] =
                      [snap |-> pushSnap[p], m |-> qmsg[p], alone |-> pushAlone[p],
                       after |-> Append(msgQueue, qmsg[p])]]
    /\ drainAlone' = FALSE
    /\ pushAlone' = OthersNotAlone(p)
    /\ qpc' = [qpc EXCEPT ![p] = "idle"]
    /\ qmsg' = [qmsg EXCEPT ![p] = 0]
    /\ frame' = FrameAt(frame, TabOf(p), "push", "publish")
    /\ UNCHANGED <<wireVars, fack, replyVars, chatVars, waitVars, waitHist, watchVars, ackVars, pushed, dpc, msgs, mres,
                   pushSnap, lastDrain, drainSnap, drainCall, delivered, dropped>>

\* DrainMessages is called: "var msgs []UserMessage".
DrainMessages ==
    /\ dpc = "idle"
    /\ dpc' = "loop"
    /\ msgs' = <<>>
    /\ drainSnap' = msgQueue
    /\ drainAlone' = TRUE
    /\ drainCall' = "drain"
    /\ UNCHANGED <<wireVars, frameVars, replyVars, chatVars, waitVars, waitHist, watchVars, ackVars, msgQueue, qpc, qmsg, pushed, mres,
                   lastPush, pushSnap, pushAlone, lastDrain, delivered, dropped>>

\* WaitForMessages is called: "var msgs []UserMessage", and the goroutine
\* is at the first select.
WaitForMessagesCall ==
    /\ dpc = "idle"
    /\ dpc' = "wait"
    /\ msgs' = <<>>
    /\ mres' = "none"
    /\ drainCall' = "wait"
    /\ UNCHANGED <<wireVars, frameVars, replyVars, chatVars, waitVars, waitHist, watchVars, ackVars, msgQueue, qpc, qmsg, pushed,
                   lastPush, pushSnap, pushAlone, lastDrain, drainSnap, drainAlone, delivered, dropped>>

\* Mutant: the cancelled call takes the oldest queued message with it.
QueueAfterCancelTakes(q) == IF q # <<>> THEN Tail(q) ELSE q

\* The queue after the select has taken "case <-ctx.Done()": the select
\* runs one branch only, so no message was received.
QueueAfterCancel(q) == q

\* WaitForMessages, the first select, "case <-ctx.Done()": it returns
\* nil and ctx.Err().
WaitForMessagesCancelled ==
    /\ dpc = "wait"
    /\ ctxDone["msg"]
    /\ dpc' = "idle"
    /\ mres' = "cancelled"
    /\ msgQueue' = QueueAfterCancel(msgQueue)
    /\ UNCHANGED <<wireVars, frameVars, replyVars, chatVars, waitVars, waitHist, watchVars, ackVars, qpc, qmsg, pushed, msgs,
                   lastPush, pushSnap, pushAlone, lastDrain, drainSnap, drainAlone, drainCall, delivered, dropped>>

\* WaitForMessages, the first select, "case msg := <-eb.msgQueue": it
\* proceeds when a message is queued and takes it.
WaitForMessages ==
    /\ dpc = "wait"
    /\ msgQueue # <<>>
    /\ dpc' = "loop"
    /\ mres' = "msgs"
    /\ msgs' = <<Head(msgQueue)>>
    /\ msgQueue' = Tail(msgQueue)
    /\ drainSnap' = msgQueue
    /\ drainAlone' = TRUE
    /\ pushAlone' = [q \in Producers |-> FALSE]
    /\ UNCHANGED <<wireVars, frameVars, replyVars, chatVars, waitVars, waitHist, watchVars, ackVars, qpc, qmsg, pushed, lastPush, pushSnap, lastDrain,
                   drainCall, delivered, dropped>>

\* Mutant: the drain loop returns at once, whatever is queued.
DrainDoneAtOnce(q) == TRUE

\* The select of the drain loop takes its default branch.
DrainDone(q) == q = <<>>

\* One turn of the drain loop of DrainMessages and WaitForMessages:
\* "case msg := <-eb.msgQueue" appends the oldest entry to msgs,
\* "default" returns msgs.
DrainLoop ==
    /\ dpc = "loop"
    /\ IF DrainDone(msgQueue)
        THEN /\ lastDrain' = [call |-> drainCall, result |-> msgs, snap |-> drainSnap,
                              alone |-> drainAlone, left |-> msgQueue]
             /\ delivered' = [m \in 1..MaxPush |->
                                delivered[m] + Cardinality({i \in 1..Len(msgs) : msgs[i] = m})]
             /\ dpc' = "idle"
             /\ msgs' = <<>>
             /\ UNCHANGED <<msgQueue, pushAlone>>
        ELSE /\ msgs' = Append(msgs, Head(msgQueue))
             /\ msgQueue' = Tail(msgQueue)
             /\ pushAlone' = [q \in Producers |-> FALSE]
             /\ UNCHANGED <<dpc, lastDrain, delivered>>
    /\ UNCHANGED <<wireVars, frameVars, replyVars, chatVars, waitVars, waitHist, watchVars, ackVars, qpc, qmsg, pushed, mres, lastPush, pushSnap,
                   drainSnap, drainAlone, drainCall, dropped>>

\* No ack frame.
NoAck == [id |-> 0, message |-> ""]

\* Mutant: the result is the bare acknowledgment whatever the message.
AckResultBare(message) == "ack"

\* The result the read loop passes to ResolveAck for an ack frame:
\* result := "ack"; if m.Message != "" { result = "ack:" + m.Message }
AckResult(message) == IF message # "" THEN "ack:" \o message ELSE "ack"

\* What the draw tool's handler makes of the result it reads from the
\* channel: the text after the "ack:" prefix, or none ("") when the result
\* is "ack" or no longer than the prefix.
ReplyOf(result) ==
    IF result # "ack" /\ Len(result) > 4 THEN SubSeq(result, 5, Len(result)) ELSE ""

\* The userMessage event the read loop publishes for an ack frame.
AckReply(message) == [type |-> "userMessage", text |-> message, qr |-> <<>>]

\* The read loop of a tab's connection has read and decoded an ack frame
\* with an id and is about to call ResolveAck, then Publish. (A frame
\* without an id changes nothing.)
AckFrameRead(c, tok, message) ==
    /\ cpc[c] = "live"
    /\ frame[c] = "none"
    /\ frame' = [frame EXCEPT ![c] = "ack"]
    /\ fack' = [fack EXCEPT ![c] = [id |-> tok, message |-> message]]
    /\ UNCHANGED <<wireVars, replyVars, chatVars, ackVars, queueVars, waitVars, waitHist, watchVars>>

\* The read loop of a tab's connection has read and decoded a message
\* frame with text or files and is about to call PushMessage, then
\* Publish. (A frame with neither changes nothing.)
FrameRead(c) ==
    /\ cpc[c] = "live"
    /\ frame[c] = "none"
    /\ frame' = [frame EXCEPT ![c] = "read"]
    /\ UNCHANGED <<wireVars, fack, replyVars, chatVars, ackVars, queueVars, waitVars, waitHist, watchVars>>

\* Mutant: the read loop writes the notice to the connection itself.
NoticeWrittenByReadLoop(w) == Append(w, NoticeFrame("handler"))

\* What the read loop writes to the connection for a message frame:
\* nothing; it only sends on writeCh.
NoticeWritten(w) == w

\* select { case writeCh <- notice: default: }: the notice is queued when
\* writeCh has room and is dropped when it is full.
NoticeQueued(ch) == IF Len(ch) < WriteCap THEN Append(ch, "messageQueued") ELSE ch

\* The read loop, after Publish has returned for a message frame: the
\* non-blocking send of the messageQueued notice on writeCh.
FrameNotify(c) ==
    /\ frame[c] = "notify"
    /\ frame' = [frame EXCEPT ![c] = "none"]
    /\ writeCh' = [writeCh EXCEPT ![c] = NoticeQueued(@)]
    /\ wire' = [wire EXCEPT ![c] = NoticeWritten(@)]
    /\ UNCHANGED <<wtr, orphan, fack, replyVars, chatVars, ackVars, queueVars, waitVars, waitHist, watchVars>>

\* The writer goroutine takes one notice from writeCh and writes it.
WriterNotice(c) ==
    /\ cpc[c] = "live"
    /\ wtr[c] = "run"
    /\ writeCh[c] # <<>>
    /\ writeCh' = [writeCh EXCEPT ![c] = Tail(@)]
    /\ wire' = [wire EXCEPT ![c] = Append(@, NoticeFrame("writer"))]
    /\ UNCHANGED <<wtr, orphan, frameVars, replyVars, chatVars, ackVars, queueVars, waitVars, waitHist, watchVars>>

\* The writer goroutine, after the handler has returned: it takes one of
\* the frames left in its channels and writes it; the write goes through
\* when conn.Close() has not run yet, and fails otherwise, and on a
\* failed write the goroutine returns.
WriterAfterClose(c) ==
    /\ cpc[c] = "closed"
    /\ wtr[c] = "run"
    /\ orphan[c] > 0
    /\ orphan' = [orphan EXCEPT ![c] = @ - 1]
    /\ \E st \in {"run", "done"} : wtr' = [wtr EXCEPT ![c] = st]
    /\ UNCHANGED <<writeCh, wire, frameVars, replyVars, chatVars, ackVars, queueVars, waitVars, waitHist, watchVars>>

InitQueue ==
    /\ writeCh = [c \in Conns |-> <<>>]
    /\ wtr = [c \in Conns |-> "none"]
    /\ orphan = [c \in Conns |-> 0]
    /\ wire = [c \in Conns |-> <<>>]
    /\ frame = [c \in Conns |-> "none"]
    /\ fack = [c \in Conns |-> NoAck]
    /\ msgQueue = <<>>
    /\ qpc = [p \in Producers |-> "idle"]
    /\ qmsg = [p \in Producers |-> 0]
    /\ pushed = 0
    /\ dpc = "idle"
    /\ msgs = <<>>
    /\ mres = "none"
    /\ lastPush = [p \in Producers |-> NoPush]
    /\ pushSnap = [p \in Producers |-> <<>>]
    /\ pushAlone = [p \in Producers |-> FALSE]
    /\ lastDrain = NoDrain
    /\ drainSnap = <<>>
    /\ drainAlone = FALSE
    /\ drainCall = "none"
    /\ delivered = [m \in 1..MaxPush |-> 0]
    /\ dropped = {}

(* -------------------- WaitForSubscriber, time, cancel ------------------ *)

\* The clock stops here.
MaxTime == 5

\* The ceiling of WaitForSubscriber in poll intervals. The program uses
\* 30 s over 100 ms = 300 (src/eventbus.go:281, 283); the model scales it
\* down so that the ceiling is reached within MaxTime.
Ceiling == 3

\* The poll interval, the unit of the clock: time.After(100 * time.Millisecond).
PollTicks == 1

\* The blocking calls that take a context: WaitForSubscriber,
\* WaitForMessages, a tool's wait on its ack channel.
Calls == {"sub", "msg", "ack"}

\* WaitForSubscriber is called.
WaitForSubscriber ==
    /\ wpc = "idle"
    /\ wpc' = "poll"
    /\ wStart' = now
    /\ wEmpty0' = (subscribers = {})
    /\ subSeen' = FALSE
    /\ unsubSeen' = FALSE
    /\ UNCHANGED <<wireVars, frameVars, replyVars, chatVars, watchVars, ackVars, queueVars, now, ctxDone, tShort, tLong, wres>>

\* Mutant: one subscriber is not enough.
HasSubscriberTwo(subs) == Cardinality(subs) > 1

\* n := len(eb.subscribers); if n > 0 { return nil }
HasSubscriber(subs) == Cardinality(subs) > 0

\* The top of the loop: the read of len(eb.subscribers) under
\* eb.mu.RLock(). With a subscriber the call returns nil; without one it
\* enters the select, whose two time.After timers are created at that
\* moment.
WaitPoll ==
    /\ wpc = "poll"
    /\ CanLock
    /\ IF HasSubscriber(subscribers)
        THEN /\ wpc' = "done"
             /\ wres' = "ok"
             /\ UNCHANGED <<tShort, tLong>>
        ELSE /\ wpc' = "select"
             /\ tShort' = now + PollTicks
             /\ tLong' = now + Ceiling
             /\ UNCHANGED wres
    /\ UNCHANGED <<wireVars, frameVars, replyVars, chatVars, watchVars, ackVars, queueVars, waitHist, now, ctxDone, wStart, wEmpty0>>

\* Mutant: the select has no ctx.Done() branch.
ReadyBranchesNoCtx ==
    {b \in {"ceiling", "poll"} :
        \/ b = "ceiling" /\ now >= tLong
        \/ b = "poll" /\ now >= tShort}

\* The branches of the select that can proceed.
ReadyBranches ==
    {b \in {"ctx", "ceiling", "poll"} :
        \/ b = "ctx" /\ ctxDone["sub"]
        \/ b = "ceiling" /\ now >= tLong
        \/ b = "poll" /\ now >= tShort}

\* The select: ctx.Done() returns ctx.Err(), the 30 s timer returns the
\* timeout error, the 100 ms timer goes round the loop; of several
\* branches that can proceed, any one is taken.
WaitSelect ==
    /\ wpc = "select"
    /\ \E b \in ReadyBranches :
        CASE b = "ctx"     -> wpc' = "done" /\ wres' = "cancelled"
          [] b = "ceiling" -> wpc' = "done" /\ wres' = "timeout"
          [] OTHER         -> wpc' = "poll" /\ UNCHANGED wres
    /\ UNCHANGED <<wireVars, frameVars, replyVars, chatVars, watchVars, ackVars, queueVars, waitHist, now, ctxDone, tShort, tLong,
                   wStart, wEmpty0>>

(* ------------------------ the permission watcher ----------------------- *)

\* Lines the watcher processes in a run.
MaxLines == 3

\* promptTimeout in units of the clock. The program uses 1500 ms
\* (src/watcher.go:16); the model scales it down so that timers fire
\* within MaxTime.
Debounce == 2

\* The tool-use ids that occur in the watched file.
ToolIds == {"t1", "t2"}

\* What ParseJSONLLine makes of a line: an assistant entry with a tool_use
\* block gives a prompt for its id, a user entry with a tool_result block
\* gives a resolved id. (A line with several blocks is processed as
\* several such lines in a row.)
Kinds == {"use", "result"}

NoLine == [kind |-> "none", id |-> "none"]

\* pp.timer.Stop(): a timer that has not fired will not fire; one whose
\* callback has started is not affected.
StopTimer(ts, r) == IF ts[r].st = "armed" THEN [ts EXCEPT ![r].st = "stopped"] ELSE ts

\* Mutant: the entry is left in the map.
KeepPending(pend, id) == pend

\* delete(w.pending, id)
RemovePending(pend, id) == [pend EXCEPT ![id] = 0]

\* The timers made for an id.
TimersOf(id) == {r \in 1..Len(timers) : timers[r].id = id}

\* No timer of the id has fired.
NoneFired(id) == \A r \in TimersOf(id) : timers[r].st \in {"armed", "stopped"}

\* processLine, under w.mu from the first statement to the return. For a
\* resolved id with an entry: the entry's timer is stopped, the entry is
\* deleted and permissionResolved is published; without an entry nothing
\* is done. For a prompt: a timer is made with time.AfterFunc and the
\* entry of the id is set to it, whether or not the id had one.
ProcessLine(kind, id) ==
    /\ ~wstopped
    /\ nlines < MaxLines
    /\ nlines' = nlines + 1
    /\ wline' = [kind |-> kind, id |-> id]
    /\ IF kind = "result"
        THEN /\ IF wpending[id] # 0
                THEN /\ timers' = StopTimer(timers, wpending[id])
                     /\ wpending' = RemovePending(wpending, id)
                     /\ wOut' = Append(wOut, [type |-> "permissionResolved", id |-> id])
                     /\ early' = [early EXCEPT ![id] =
                                    IF @ = "no" /\ NoneFired(id) THEN "yes" ELSE @]
                ELSE UNCHANGED <<timers, wpending, wOut, early>>
             /\ UNCHANGED uses
        ELSE /\ timers' = Append(timers, [id |-> id, due |-> now + Debounce, st |-> "armed"])
             /\ wpending' = [wpending EXCEPT ![id] = Len(timers) + 1]
             /\ uses' = [uses EXCEPT ![id] = @ + 1]
             /\ early' = [early EXCEPT ![id] = IF @ = "yes" THEN "again" ELSE @]
             /\ UNCHANGED wOut
    /\ UNCHANGED <<wireVars, frameVars, replyVars, chatVars, ackVars, queueVars, waitVars, waitHist, tailVars, wstopped>>

\* A timer fires when its time has come: the runtime starts its callback
\* in a goroutine of its own.
TimerFire(r) ==
    /\ r \in 1..Len(timers)
    /\ timers[r].st = "armed"
    /\ now >= timers[r].due
    /\ timers' = [timers EXCEPT ![r].st = "fired"]
    /\ UNCHANGED <<wireVars, frameVars, replyVars, chatVars, ackVars, queueVars, waitVars, waitHist, tailVars,
                   wpending, wOut, nlines, wline, uses, early, wstopped>>

\* The callback, its section under w.mu:
\* "_, stillPending := w.pending[prompt.ToolUseID]".
TimerCheck(r) ==
    /\ r \in 1..Len(timers)
    /\ timers[r].st = "fired"
    /\ timers' = [timers EXCEPT ![r].st =
                    IF wpending[timers[r].id] # 0 THEN "checked" ELSE "done"]
    /\ UNCHANGED <<wireVars, frameVars, replyVars, chatVars, ackVars, queueVars, waitVars, waitHist, tailVars,
                   wpending, wOut, nlines, wline, uses, early, wstopped>>

\* The callback after the unlock: "if stillPending" it publishes
\* permissionPrompt.
TimerPublish(r) ==
    /\ r \in 1..Len(timers)
    /\ timers[r].st = "checked"
    /\ wOut' = Append(wOut, [type |-> "permissionPrompt", id |-> timers[r].id])
    /\ timers' = [timers EXCEPT ![r].st = "done"]
    /\ UNCHANGED <<wireVars, frameVars, replyVars, chatVars, ackVars, queueVars, waitVars, waitHist, tailVars,
                   wpending, nlines, wline, uses, early, wstopped>>

\* The timers after clearPending: the timer of every entry of the map is
\* stopped; a timer whose callback has started is not affected.
StopAll(ts, pend) ==
    [r \in 1..Len(ts) |->
        IF (\E id \in ToolIds : pend[id] = r) /\ ts[r].st = "armed"
        THEN [ts[r] EXCEPT !.st = "stopped"] ELSE ts[r]]

\* Run, "case <-ctx.Done()": w.clearPending(), under w.mu, stops the timer
\* of every entry and deletes the entry; Run returns.
ClearPending ==
    /\ ~wstopped
    /\ wstopped' = TRUE
    /\ timers' = StopAll(timers, wpending)
    /\ wpending' = [id \in ToolIds |-> 0]
    /\ UNCHANGED <<wireVars, frameVars, replyVars, chatVars, ackVars, queueVars, waitVars, waitHist, tailVars,
                   wOut, nlines, wline, uses, early>>

\* The bytes the writer of the session file appends in a run.
MaxBytes == 5

\* The bytes: a byte of a line's text, and the newline.
Bytes == {"x", "nl"}

\* The writer of the session file appends a byte; an append of several
\* bytes is several of these with no poll in between.
WriterAppend(b) ==
    /\ Len(wfile) < MaxBytes
    /\ wfile' = Append(wfile, b)
    /\ polled' = FALSE
    /\ UNCHANGED <<wireVars, frameVars, replyVars, chatVars, ackVars, queueVars, waitVars, waitHist,
                   wpending, timers, wOut, nlines, wline, uses, early, wstopped,
                   wstarted, wpos, wproc, wstart>>

\* Run up to its loop: os.Open, f.Seek(0, io.SeekEnd), bufio.NewReader.
WatcherRun ==
    /\ ~wstarted
    /\ wstarted' = TRUE
    /\ wpos' = Len(wfile)
    /\ wstart' = Len(wfile)
    /\ UNCHANGED <<wireVars, frameVars, replyVars, chatVars, ackVars, queueVars, waitVars, waitHist,
                   wpending, timers, wOut, nlines, wline, uses, early, wstopped,
                   wfile, wproc, polled>>

\* The position of the first newline of f after pos, 0 when there is none.
NextNewline(f, pos) ==
    IF \E i \in (pos + 1)..Len(f) : f[i] = "nl"
    THEN CHOOSE i \in (pos + 1)..Len(f) :
            f[i] = "nl" /\ \A j \in (pos + 1)..(i - 1) : f[j] # "nl"
    ELSE 0

\* "if len(line) <= 1 { continue }": a line that is only its newline is
\* not passed to processLine.
Skipped(line) == Len(line) <= 1

\* The loop of readNewLines from position pos, with `acc` the lines
\* passed to processLine so far. reader.ReadBytes('\n') returns the bytes
\* up to and including the next newline; when the file ends before a
\* newline it returns the bytes read so far together with io.EOF, those
\* bytes are consumed, and readNewLines returns without using them.
RECURSIVE ReadLoop(_, _, _)
ReadLoop(f, pos, acc) ==
    LET i == NextNewline(f, pos) IN
    IF i = 0
    THEN [pos |-> Len(f), lines |-> acc]
    ELSE ReadLoop(f, i, IF Skipped(SubSeq(f, pos + 1, i)) THEN acc
                        ELSE Append(acc, SubSeq(f, pos + 1, i)))

\* A tick of the ticker: readNewLines.
ReadNewLines ==
    /\ wstarted
    /\ ~wstopped
    /\ LET r == ReadLoop(wfile, wpos, wproc) IN
        /\ wpos' = r.pos
        /\ wproc' = r.lines
    /\ polled' = TRUE
    /\ UNCHANGED <<wireVars, frameVars, replyVars, chatVars, ackVars, queueVars, waitVars, waitHist,
                   wpending, timers, wOut, nlines, wline, uses, early, wstopped,
                   wfile, wstarted, wstart>>

InitTail ==
    /\ wfile = <<>>
    /\ wstarted = FALSE
    /\ wpos = 0
    /\ wproc = <<>>
    /\ wstart = 0
    /\ polled = FALSE

\* No timer is waiting to fire.
NoTimerDue == \A r \in 1..Len(timers) : timers[r].st = "armed" => now < timers[r].due

InitWatcher ==
    /\ wpending = [id \in ToolIds |-> 0]
    /\ timers = <<>>
    /\ wOut = <<>>
    /\ nlines = 0
    /\ wline = NoLine
    /\ uses = [id \in ToolIds |-> 0]
    /\ early = [id \in ToolIds |-> "no"]
    /\ wstopped = FALSE
    /\ InitTail

\* Time passes, one poll interval. A goroutine parked in a select is
\* resumed with the branch that becomes ready first, so the clock does not
\* pass a moment at which a branch of the parked select is ready; the
\* read at the top of the loop takes less than a poll interval; and a
\* timer fires when its time has come.
Tick ==
    /\ now < MaxTime
    /\ NoTimerDue
    /\ wpc # "poll"
    /\ ~(wpc = "select" /\ ReadyBranches # {})
    /\ now' = now + 1
    /\ UNCHANGED <<wireVars, frameVars, replyVars, chatVars, watchVars, ackVars, queueVars, waitHist, ctxDone, wpc, tShort, tLong,
                   wres, wStart, wEmpty0>>

\* The caller of blocking call k cancels its context.
Cancel(k) ==
    /\ ~ctxDone[k]
    /\ ctxDone' = [ctxDone EXCEPT ![k] = TRUE]
    /\ UNCHANGED <<wireVars, frameVars, replyVars, chatVars, watchVars, ackVars, queueVars, waitHist, now, wpc, tShort, tLong,
                   wres, wStart, wEmpty0>>

InitWait ==
    /\ now = 0
    /\ ctxDone = [k \in Calls |-> FALSE]
    /\ wpc = "idle"
    /\ tShort = 0
    /\ tLong = 0
    /\ wres = "none"
    /\ wStart = 0
    /\ wEmpty0 = FALSE
    /\ subSeen = FALSE
    /\ unsubSeen = FALSE

(* --------------------------- specification ----------------------------- *)

Init ==
    /\ eventLog = <<>>
    /\ nextSeq = 0
    /\ lastQuickReplies = <<>>
    /\ mu = "free"
    /\ subscribers = {}
    /\ mailbox = [c \in Conns |-> <<>>]
    /\ durable \in BOOLEAN
    /\ logOpen = durable
    /\ logFile = <<>>
    /\ restarts = 0
    /\ connects = [c \in Conns |-> 0]
    /\ ppc = [p \in Pubs |-> "idle"]
    /\ pev = [p \in Pubs |-> NoEvent]
    /\ pubCount = 0
    /\ cpc = [c \in Conns |-> "closed"]
    /\ cursor = [c \in Conns |-> 0]
    /\ missed = [c \in Conns |-> <<>>]
    /\ highSeq = [c \in Conns |-> 0]
    /\ received = [c \in Conns |-> <<>>]
    /\ connStart = [c \in Conns |-> 0]
    /\ published = {}
    /\ baseLen = 0
    /\ baseSeq = 0
    /\ baseFile = <<>>
    /\ returned = {}
    /\ owed = [c \in Conns |-> {}]
    /\ inWindow = [c \in Conns |-> {}]
    /\ seqAtSub = [c \in Conns |-> 0]
    /\ overflow = [c \in Conns |-> FALSE]
    /\ atStop = [qr |-> <<>>, clean |-> TRUE]
    /\ InitAck
    /\ InitQueue
    /\ InitWait
    /\ InitWatcher

\* The client of the claims: it reconnects with the highest sequence
\* number it has received.
Next ==
    \/ \E p \in Pubs : PublishLock(p)
    \/ \E p \in Pubs : PublishAppend(p)
    \/ \E p \in Pubs : WriteToLog(p, {"ok", "fail"})
    \/ \E c \in OneTab : Connect(c, LastSeen(c))
    \/ \E c \in OneTab : Subscribe(c)
    \/ \E c \in OneTab : ReadHistory(c)
    \/ \E c \in OneTab : ReplayWrite(c)
    \/ \E c \in OneTab : StartWriter(c)
    \/ \E c \in OneTab : WriterStep(c)
    \/ \E c \in OneTab : Disconnect(c)
    \/ \E c \in OneTab : Unsubscribe(c)
    \/ Restart

Spec == Init /\ [][Next]_vars

(* ------------- one process lifetime, from a reloaded log --------------- *)

\* Lines of the log file found at start.
MaxFileLen == 2

\* Highest sequence number in the log file found at start.
MaxFileSeq == 2

\* Highest cursor a request supplies.
MaxCursor == 3

\* The event of a line found at start: a userMessage of LogUserMessage
\* when its sequence number is 0, an agent message otherwise.
Loaded(id, seq) ==
    [id |-> id, seq |-> seq, type |-> IF seq = 0 THEN "userMessage" ELSE "agentMessage",
     text |-> "", qr |-> <<>>]

\* The log files found at start: up to MaxFileLen whole lines, each an
\* event with a sequence number in 0..MaxFileSeq (0: a LogUserMessage
\* entry), in any order (writeToLog runs outside eb.mu) and with repeats
\* (a restart that missed a line assigns its number again). Line i
\* carries the id -i.
Files ==
    UNION {{[i \in 1..n |-> Marshal(Loaded(0 - i, f[i]))] :
                f \in [1..n -> 0..MaxFileSeq]} : n \in 0..MaxFileLen}

\* main, with AGENT_CHAT_EVENT_LOG set: NewEventBusWithLog(path) on a file
\* left by earlier lifetimes.
InitLoaded ==
    /\ logFile \in Files
    /\ eventLog = LoadEvents(logFile)
    /\ nextSeq = LoadMaxSeq(logFile)
    /\ baseLen = Len(LoadEvents(logFile))
    /\ baseSeq = LoadMaxSeq(logFile)
    /\ baseFile = logFile
    /\ lastQuickReplies = LoadQuickReplies(logFile)
    /\ durable = TRUE
    /\ logOpen = TRUE
    /\ mu = "free"
    /\ subscribers = {}
    /\ mailbox = [c \in Conns |-> <<>>]
    /\ restarts = 0
    /\ connects = [c \in Conns |-> MaxConnects - 1]
    /\ ppc = [p \in Pubs |-> "idle"]
    /\ pev = [p \in Pubs |-> NoEvent]
    /\ pubCount = 0
    /\ cpc = [c \in Conns |-> "closed"]
    /\ cursor = [c \in Conns |-> 0]
    /\ missed = [c \in Conns |-> <<>>]
    /\ highSeq = [c \in Conns |-> 0]
    /\ received = [c \in Conns |-> <<>>]
    /\ connStart = [c \in Conns |-> 0]
    /\ published = {}
    /\ returned = {}
    /\ owed = [c \in Conns |-> {}]
    /\ inWindow = [c \in Conns |-> {}]
    /\ seqAtSub = [c \in Conns |-> 0]
    /\ overflow = [c \in Conns |-> FALSE]
    /\ atStop = [qr |-> <<>>, clean |-> TRUE]
    /\ InitAck
    /\ InitQueue
    /\ InitWait
    /\ InitWatcher

\* One lifetime; the cursor is what the request's query parameter says:
\* none, or a number that may be ahead of the bus's counter.
NextLifetime ==
    \/ \E p \in Pubs : PublishLock(p)
    \/ \E p \in Pubs : PublishAppend(p)
    \/ \E p \in Pubs : WriteToLog(p, {"ok"})
    \/ \E c \in OneTab : \E cur \in {0, MaxCursor} : Connect(c, cur)
    \/ \E c \in OneTab : Subscribe(c)
    \/ \E c \in OneTab : ReadHistory(c)
    \/ \E c \in OneTab : ReplayWrite(c)
    \/ \E c \in OneTab : StartWriter(c)
    \/ \E c \in OneTab : WriterStep(c)
    \/ \E c \in OneTab : Disconnect(c)
    \/ \E c \in OneTab : Unsubscribe(c)

SpecLifetime == InitLoaded /\ [][NextLifetime]_vars

(* ------------------- the event log and its file alone ------------------ *)

NextLog ==
    \/ \E p \in Pubs : PublishLock(p)
    \/ \E p \in Pubs : PublishAppend(p)
    \/ \E p \in Pubs : LogUserMessage(p)
    \/ \E p \in Pubs : WriteToLog(p, {"ok", "fail", "torn", "oversize"})
    \/ Restart

InitLog == Init /\ durable

SpecLog == InitLog /\ [][NextLog]_vars

(* --------------------------- the acks alone ---------------------------- *)

\* Two ResolveAck calls may overlap; the second goroutine is the one that
\* calls while the first is inside its call.
NextAck ==
    \/ CreateAck
    \/ \E r \in Resolvers : \E tok \in Tokens : \E res \in Results :
          (r = "r1" \/ rpc["r1"] # "idle") /\ ResolveAckLookup(r, tok, res)
    \/ \E r \in Resolvers : ResolveAckReturn(r)
    \/ \E t \in Tokens : WaiterReceive(t)

SpecAck == InitLog /\ [][NextAck]_vars

(* ----------------------- the message queue alone ----------------------- *)

\* One producer (one connection's read loop) and one consumer (the agent's
\* tool call).
NextQueue ==
    \/ PushMessage("q1")
    \/ PushMessageDrop("q1")
    \/ PushMessageSend("q1")
    \/ DrainMessages
    \/ WaitForMessagesCall
    \/ WaitForMessages
    \/ DrainLoop

SpecQueue == InitLog /\ [][NextQueue]_vars

\* Several producers (several connections pushing at once) and one consumer.
NextProducers ==
    \/ \E p \in Producers : PushMessage(p)
    \/ \E p \in Producers : PushMessageDrop(p)
    \/ \E p \in Producers : PushMessageSend(p)
    \/ DrainMessages
    \/ WaitForMessagesCall
    \/ WaitForMessages
    \/ DrainLoop

SpecProducers == InitLog /\ [][NextProducers]_vars

(* ------------------------ the fan-out to two tabs ---------------------- *)

\* One publisher and two browser tabs, each connecting once with no
\* cursor, reading its mailbox or leaving it unread, and disconnecting.
NextFanOut ==
    \/ PublishLock("p1")
    \/ PublishAppend("p1")
    \/ WriteToLog("p1", {"ok"})
    \/ \E c \in Conns : (connects[c] = 0 /\ Connect(c, 0))
    \/ \E c \in Conns : Subscribe(c)
    \/ \E c \in Conns : ReadHistory(c)
    \/ \E c \in Conns : ReplayWrite(c)
    \/ \E c \in Conns : StartWriter(c)
    \/ \E c \in Conns : WriterStep(c)
    \/ \E c \in Conns : Disconnect(c)
    \/ \E c \in Conns : Unsubscribe(c)

SpecFanOut == InitLog /\ [][NextFanOut]_vars

(* --------------------------- the watcher alone ------------------------- *)

\* Any sequence of lines, processed at any moments, and the timers.
NextWatcher ==
    \/ \E k \in Kinds : \E id \in ToolIds : ProcessLine(k, id)
    \/ \E r \in 1..MaxLines : TimerFire(r)
    \/ \E r \in 1..MaxLines : TimerCheck(r)
    \/ \E r \in 1..MaxLines : TimerPublish(r)
    \/ Tick

SpecWatcher == InitLog /\ [][NextWatcher]_vars

(* ------------------------ the reading of the file ---------------------- *)

\* The writer appends byte by byte, before and after the watch starts,
\* and the watcher polls at any moments.
NextTail ==
    \/ \E b \in Bytes : WriterAppend(b)
    \/ WatcherRun
    \/ ReadNewLines

SpecTail == InitLog /\ [][NextTail]_vars

(* ------------------------- the message frames -------------------------- *)

\* Two tabs, each connected once, send message frames; nobody else
\* publishes, and the agent does not take the messages.
NextFrames ==
    \/ \E c \in Conns : (connects[c] = 0 /\ Connect(c, 0))
    \/ \E c \in Conns : Subscribe(c)
    \/ \E c \in Conns : ReadHistory(c)
    \/ \E c \in Conns : ReplayWrite(c)
    \/ \E c \in Conns : StartWriter(c)
    \/ \E c \in Conns : WriterStep(c)
    \/ \E c \in Conns : WriterNotice(c)
    \/ \E c \in Conns : FrameRead(c)
    \/ \E c \in Conns : FrameNotify(c)
    \/ \E p \in Producers : (frame[TabOf(p)] = "read" /\ PushMessage(p))
    \/ \E p \in Producers : PushMessageDrop(p)
    \/ \E p \in Producers : PushMessageSend(p)
    \/ \E p \in Pubs : (frame[TabOf(p)] = "publish" /\ PublishLock(p))
    \/ \E p \in Pubs : PublishAppend(p)
    \/ \E p \in Pubs : WriteToLog(p, {"ok"})

SpecFrames == InitLog /\ [][NextFrames]_vars

(* ----------------- the blocking calls and cancellation ----------------- *)

\* The three blocking calls, each under a context its caller may cancel at
\* any moment, over two poll intervals, with one browser message, one ack
\* request and one answer to it.
NextCancel ==
    \/ \E k \in Calls : Cancel(k)
    \/ (now <= PollTicks /\ Tick)
    \/ WaitForSubscriber
    \/ WaitPoll
    \/ WaitSelect
    \/ (pushed = 0 /\ PushMessage("q1"))
    \/ WaitForMessagesCall
    \/ WaitForMessages
    \/ WaitForMessagesCancelled
    \/ DrainLoop
    \/ (created = 0 /\ CreateAck)
    \/ (resolves = 0 /\ ResolveAckLookup("r1", 1, "ack"))
    \/ ResolveAckReturn("r1")
    \/ \E t \in Tokens : WaiterReceive(t)
    \/ \E t \in Tokens : AckWaitCancelled(t)

\* A goroutine that can run does run: the Go scheduler resumes a select
\* one of whose branches can proceed.
FairCancel ==
    /\ WF_vars(WaitPoll)
    /\ WF_vars(WaitSelect)
    /\ WF_vars(WaitForMessages \/ WaitForMessagesCancelled)
    /\ \A t \in Tokens : WF_vars(WaiterReceive(t) \/ AckWaitCancelled(t))

SpecCancel == InitLog /\ [][NextCancel]_vars /\ FairCancel

(* ------------------------ the subscriber wait -------------------------- *)

\* A tool handler waits for a browser while a tab connects and leaves.
NextWait ==
    \/ WaitForSubscriber
    \/ WaitPoll
    \/ WaitSelect
    \/ Tick
    \/ Cancel("sub")
    \/ Connect("c1", 0)
    \/ Subscribe("c1")
    \/ Disconnect("c1")
    \/ Unsubscribe("c1")

SpecWait == InitLog /\ [][NextWait]_vars

(* --------------------------- the ack frames ---------------------------- *)

\* The goroutine of a tab's read loop that calls ResolveAck, and the one
\* that calls Publish.
ResolverOf(c) == IF c = "c1" THEN "r1" ELSE "r2"
PublisherOf(c) == IF c = "c1" THEN "p1" ELSE "p2"

\* The draw tool creates an ack and waits for it; two tabs, connected one
\* after the other, then send one ack frame each, with any id and message.
NextAckFrames ==
    \/ CreateAck
    \/ \E t \in Tokens : WaiterReceive(t)
    \/ (connects["c1"] = 0 /\ Connect("c1", 0))
    \/ (connects["c2"] = 0 /\ cpc["c1"] = "live" /\ Connect("c2", 0))
    \/ \E c \in Conns : Subscribe(c)
    \/ \E c \in Conns : ReadHistory(c)
    \/ \E c \in Conns : StartWriter(c)
    \/ \E c \in Conns : WriterStep(c)
    \/ \E c \in Conns : \E tok \in Tokens : \E m \in Texts :
          (cpc["c2"] = "live" /\ fack[c] = NoAck /\ AckFrameRead(c, tok, m))
    \/ \E c \in Conns : (frame[c] = "ack" /\ ResolveAckLookup(ResolverOf(c), fack[c].id, AckResult(fack[c].message)))
    \/ \E r \in Resolvers : ResolveAckReturn(r)
    \/ \E c \in Conns : (frame[c] = "reply" /\ PublishLockWith(PublisherOf(c), AckReply(fack[c].message)))
    \/ \E p \in Pubs : PublishAppend(p)
    \/ \E p \in Pubs : WriteToLog(p, {"ok"})

SpecAckFrames == InitLog /\ [][NextAckFrames]_vars

(* ---------------------------- the handshake ---------------------------- *)

\* The events of the runs about quick replies: of either type, without
\* text, with or without quick replies.
Untexted == {k \in Contents : k.text = ""}

\* A tab connects, leaves and connects again while the agent publishes
\* events with and without quick replies and the draw tool creates an ack
\* that is then resolved.
NextHandshake ==
    \/ CreateAck
    \/ ResolveAckLookup("r1", 1, "ack")
    \/ ResolveAckReturn("r1")
    \/ \E k \in Untexted : PublishLockWith("p1", k)
    \/ PublishAppend("p1")
    \/ WriteToLog("p1", {"ok"})
    \/ Connect("c1", 0)
    \/ Subscribe("c1")
    \/ Disconnect("c1")
    \/ Unsubscribe("c1")

SpecHandshake == InitLog /\ [][NextHandshake]_vars

(* -------------------------- the quick replies -------------------------- *)

\* Two goroutines publish events of any type, with and without quick
\* replies.
NextReplies ==
    \/ \E p \in Pubs : \E k \in Untexted : PublishLockWith(p, k)
    \/ \E p \in Pubs : PublishAppend(p)
    \/ \E p \in Pubs : WriteToLog(p, {"ok"})

SpecReplies == InitLog /\ [][NextReplies]_vars

\* The same with LogUserMessage calls, every Write succeeding, and a
\* restart on the same file.
NextReload ==
    \/ \E p \in Pubs : \E k \in Untexted : PublishLockWith(p, k)
    \/ \E p \in Pubs : PublishAppend(p)
    \/ \E p \in Pubs : LogUserMessage(p)
    \/ \E p \in Pubs : WriteToLog(p, {"ok"})
    \/ Restart

SpecReload == InitLog /\ [][NextReload]_vars

(* ------------------------------- claims -------------------------------- *)

\* The event frames a tab has received on its current connection.
Frames(c) == SubSeq(received[c], connStart[c] + 1, Len(received[c]))

NoRepeat(s) == \A i, j \in 1..Len(s) : i # j => s[i].id # s[j].id

Increasing(s) == \A i, j \in 1..Len(s) : i < j => s[i].seq < s[j].seq

\* The connection has written all it has: the replay is over, the mailbox
\* is empty.
Quiet(c) == cpc[c] = "live" /\ mailbox[c] = <<>>

\* C1: a tab that reconnects with the highest sequence number it has
\* received gets every published event exactly once and in increasing
\* sequence order, over all its connections, across restarts, with or
\* without a durable log file: no event twice, sequence numbers
\* increasing, and no event whose Publish has returned is missing once
\* the tab's connection has written all it has.
C1_ExactlyOnceInOrder ==
    \A c \in Conns :
        /\ NoRepeat(received[c])
        /\ Increasing(received[c])
        /\ Quiet(c) => returned \subseteq Ids(received[c])

\* C2: the k-th event Publish appends to the log of one bus carries
\* sequence n + k, n being the counter the bus started from; hence the
\* sequence numbers increase strictly in append order and no two Publish
\* calls obtain the same one.
C2_SeqInAppendOrder ==
    \A k \in 1..(Len(eventLog) - baseLen) : eventLog[baseLen + k].seq = baseSeq + k

\* C2 witness: two Publish calls overlapped (both have appended, neither
\* has returned).
C2_Witness ==
    /\ ppc["p1"] = "write" /\ ppc["p2"] = "write"
    /\ Len(eventLog) - baseLen >= 2
    /\ baseSeq > 0

\* C3: the event frames written on one connection carry strictly
\* increasing sequence numbers (so no event is written twice).
C3_FramesIncreasing == \A c \in Conns : Increasing(Frames(c))

\* C4: once a connection that stayed open and whose mailbox never
\* overflowed has written all it has, it has written every event that was
\* logged with sequence > cursor at its Subscribe and every event
\* published since.
C4_NothingLost ==
    \A c \in Conns :
        (Quiet(c) /\ ~overflow[c]) => owed[c] \subseteq Ids(Frames(c))

\* What is left of C4 when the cursor is not ahead of the bus's sequence
\* counter at the Subscribe (it holds in SpecLifetime, for every reloaded
\* log, with no cursor and with one the counter has caught up with).
NothingLostCursorBehind ==
    \A c \in Conns :
        (Quiet(c) /\ ~overflow[c] /\ cursor[c] <= seqAtSub[c])
            => owed[c] \subseteq Ids(Frames(c))

\* A connection with a cursor > 0 has written all it has, among it an
\* event published between its Subscribe and its EventsSince and an event
\* published after its EventsSince.
WindowCase ==
    \E c \in Conns :
        /\ Quiet(c) /\ ~overflow[c] /\ cursor[c] <= seqAtSub[c] /\ cursor[c] > 0
        /\ inWindow[c] # {}
        /\ owed[c] \ inWindow[c] # {}
        /\ \E e \in Range(Frames(c)) : e.seq > highSeq[c]

\* The selection the comment of EventsSince describes: the events with
\* Seq > cursor, in log order.
SeqAbove(log, c) == SelectSeq(log, LAMBDA e : e.seq > c)

\* C5: for every cursor, EventsSince(cursor) is exactly the logged events
\* with sequence > cursor, in log order (hence empty when the cursor is at
\* or above the highest sequence logged).
C5_ExactlySeqAboveCursor ==
    \A c \in 0..MaxCursor : EventsSince(eventLog, c) = SeqAbove(eventLog, c)

\* The events a log file holds: its whole lines, within or beyond the
\* scanner's buffer; a fragment that is no JSON is no event.
PriorEvents(lines) ==
    [i \in 1..Len(SelectSeq(lines, Parses)) |-> Unmarshal(SelectSeq(lines, Parses)[i])]

\* Positions of the events Publish has appended to the log since the bus
\* was constructed.
PublishedAt == {i \in (baseLen + 1)..Len(eventLog) : eventLog[i] \in published}

\* C6: the first event published on a bus that NewEventBusWithLog built
\* from a log file carries the highest sequence number among the file's
\* events, plus one.
C6_ContinuesFromMax ==
    (restarts > 0 /\ durable /\ PublishedAt # {}) =>
        LET first == CHOOSE i \in PublishedAt : \A j \in PublishedAt : i <= j IN
            eventLog[first].seq = MaxSeqOf(PriorEvents(baseFile)) + 1

\* C7: no two distinct published events are ever assigned the same
\* sequence number, across restarts on the same durable log file.
C7_NoSeqReuse ==
    durable => \A e1, e2 \in published : e1.id # e2.id => e1.seq # e2.seq

\* C8: a ResolveAck whose token is not registered (never created, or
\* resolved already) finds nothing and returns false, and neither of its
\* steps changes the registry, an ack channel, the event log or the
\* message queue.
C8_UnknownTokenNoEffect ==
    [][\A r \in Resolvers :
        /\ (rpc[r] = "idle" /\ rpc'[r] = "unlocked" /\ rtok'[r] \notin pending)
              => (~rok'[r] /\ UNCHANGED <<pending, ackCh, eventLog, msgQueue>>)
        /\ (rpc[r] = "unlocked" /\ rpc'[r] = "idle" /\ ~rok[r])
              => /\ UNCHANGED <<pending, ackCh, eventLog, msgQueue>>
                 /\ \A c \in calls' \ calls : c.ret = FALSE]_vars

\* C8 witness: a call with a token that was never created has returned
\* false, and so has a call that came after the call that resolved its
\* token.
C8_Witness ==
    /\ \E c \in calls : c.tok > created /\ c.ret = FALSE
    /\ \E c1, c2 \in calls :
          c1.tok = c2.tok /\ c1.ret = TRUE /\ c2.ret = FALSE /\ c1.n < c2.n

\* The calls on token t that returned true, and those past a lookup that
\* found t.
TrueCalls(t) == {c \in calls : c.tok = t /\ c.ret = TRUE}

Holders(t) == {r \in Resolvers : rpc[r] = "unlocked" /\ rtok[r] = t /\ rok[r]}

\* C9: for every created token, at most one ResolveAck call finds it, and
\* exactly one once it has left the registry; at most one value is ever
\* sent on its channel, the result of the call that returned true; and
\* what the waiter has read plus what the channel holds is that value.
C9_ResolvedExactlyOnce ==
    \A t \in 1..created :
        /\ Cardinality(TrueCalls(t)) + Cardinality(Holders(t)) <= 1
        /\ t \notin pending => Cardinality(TrueCalls(t)) + Cardinality(Holders(t)) = 1
        /\ Len(sentOn[t]) <= 1
        /\ \A c \in TrueCalls(t) : sentOn[t] = <<c.res>>
        /\ TrueCalls(t) = {} => sentOn[t] = <<>>
        /\ got[t] \o ackCh[t] = sentOn[t]

\* C9 witness: two calls with the same token and different results
\* overlapped (the one that found the token returned after the other),
\* and the waiter has read the value.
C9_Witness ==
    \E t \in 1..created : \E c1, c2 \in calls :
        /\ c1.tok = t /\ c2.tok = t
        /\ c1.ret = TRUE /\ c2.ret = FALSE
        /\ c1.n < c2.n /\ c2.at < c1.at
        /\ c1.res # c2.res
        /\ got[t] = <<c1.res>>

Ascending(s) == \A i, j \in 1..Len(s) : i < j => s[i] < s[j]

\* C10: with one producer, the queue holds its entries in arrival order;
\* a PushMessage that found the queue full, with no consumer taking
\* anything meanwhile, leaves the entries it found minus the oldest,
\* followed by the new one; a drain returns entries in arrival order and
\* returns when the queue is empty, and with the producer not touching the
\* queue meanwhile it returns all the entries it found.
C10_DropOldestAndDrain ==
    /\ Ascending(msgQueue)
    /\ \A p \in Producers :
          lastPush[p].alone => lastPush[p].after = Append(Tail(lastPush[p].snap), lastPush[p].m)
    /\ Ascending(lastDrain.result)
    /\ lastDrain.left = <<>>
    /\ lastDrain.alone => lastDrain.result = lastDrain.snap

\* C10 witness: a PushMessage found the queue full and dropped the oldest
\* entry, and a drain then returned the whole queue.
C10_Witness ==
    /\ lastPush["q1"].alone /\ Len(lastPush["q1"].snap) = QueueCap
    /\ lastDrain.alone /\ lastDrain.result = lastPush["q1"].after
    /\ msgQueue = <<>>

\* A producer waits in the send of PushMessage: the channel is full.
Blocked(p) == qpc[p] = "send" /\ ~HasRoom(msgQueue)

\* C11: no PushMessage call is ever left waiting in its send with the
\* queue full while every other producer is outside PushMessage or waits
\* as well (such a call returns only if a consumer takes an entry or a
\* new PushMessage call drops one).
C11_PushNeverBlocks ==
    \A p \in Producers :
        ~(Blocked(p) /\ \A q \in Producers \ {p} : qpc[q] = "idle" \/ Blocked(q))

\* The goroutine inside WaitForSubscriber leaves the top of the loop.
PollStep == wpc = "poll" /\ wpc' # "poll"

\* C12, as stated: once a Subscribe has occurred during the wait, the
\* wait's next look at the subscriber set returns success.
C12_SubscribeEndsWait == [][(PollStep /\ subSeen) => wres' = "ok"]_vars

\* C12, amended: a wait returns success at its first look that finds a
\* subscriber registered, so a Subscribe during the wait ends it with
\* success when no Unsubscribe has followed before that look; and a wait
\* that began with the set empty does not return success unless a
\* Subscribe has occurred since.
C12_RegisteredEndsWait ==
    [][/\ (PollStep /\ subSeen /\ ~unsubSeen) => wres' = "ok"
       /\ (PollStep /\ subscribers # {}) => wres' = "ok"
       /\ (wres' = "ok" /\ wEmpty0') => subSeen']_vars

\* C12 witness: a wait that began with no subscriber, and went round the
\* loop at least once, has returned success after a Subscribe.
C12_Witness ==
    wres = "ok" /\ wEmpty0 /\ subSeen /\ now > wStart

\* C13: a WaitForSubscriber call during which no subscriber was registered
\* and the context was not cancelled is over, with the timeout error,
\* once more than the ceiling has passed since it began.
C13_TimesOut ==
    (wpc # "idle" /\ wEmpty0 /\ ~subSeen /\ ~ctxDone["sub"] /\ now - wStart > Ceiling)
        => wres = "timeout"

\* A blocking call is in progress.
InWaitForSubscriber == wpc \in {"poll", "select"}
InWaitForMessages == dpc = "wait"
InAckWait(t) == await[t] = "wait"

\* C14, as stated: a blocking call that returns after its context was
\* cancelled returns the cancellation error.
C14_ReturnsCancellationError ==
    [][/\ (ctxDone["sub"] /\ InWaitForSubscriber /\ wpc' = "done") => wres' = "cancelled"
       /\ (ctxDone["msg"] /\ InWaitForMessages /\ dpc' # "wait") => mres' = "cancelled"
       /\ \A t \in Tokens :
            (ctxDone["ack"] /\ InAckWait(t) /\ await'[t] # "wait") => await'[t] = "cancelled"]_vars

\* C14, amended: a blocking call whose context is cancelled returns;
\* it returns the cancellation error when what it waits for (a
\* subscriber, a queued message, the ack's result) is not there, and no
\* call returns the cancellation error under a live context.
C14_CancelUnblocks ==
    /\ (ctxDone["sub"] /\ InWaitForSubscriber) ~> ~InWaitForSubscriber
    /\ (ctxDone["msg"] /\ InWaitForMessages) ~> ~InWaitForMessages
    /\ \A t \in Tokens : (ctxDone["ack"] /\ InAckWait(t)) ~> ~InAckWait(t)
    /\ [][/\ (ctxDone["sub"] /\ InWaitForSubscriber /\ wpc' = "done" /\ subscribers = {})
               => wres' = "cancelled"
          /\ (ctxDone["msg"] /\ InWaitForMessages /\ dpc' # "wait" /\ msgQueue = <<>>)
               => mres' = "cancelled"
          /\ \A t \in Tokens :
               (ctxDone["ack"] /\ InAckWait(t) /\ await'[t] # "wait" /\ ackCh[t] = <<>>)
                   => await'[t] = "cancelled"
          /\ (wres' = "cancelled" /\ wres # "cancelled") => ctxDone["sub"]
          /\ (mres' = "cancelled" /\ mres # "cancelled") => ctxDone["msg"]
          /\ \A t \in Tokens :
               (await'[t] = "cancelled" /\ await[t] # "cancelled") => ctxDone["ack"]]_vars

\* C14 witness: each of the three blocking calls has returned the
\* cancellation error.
C14_Witness ==
    /\ wres = "cancelled"
    /\ mres = "cancelled"
    /\ \E t \in Tokens : await[t] = "cancelled"

\* The step of Publish that appends the event and fans it out.
FanOutStep == \E p \in Pubs : ppc[p] = "locked" /\ ppc'[p] = "write"

\* C15: the fan-out step of a Publish appends one copy of the event to the
\* mailbox of every registered subscriber whose mailbox is not full and
\* leaves every other mailbox (full, or not registered) as it was; no
\* other step ever adds an event to a mailbox, so a dropped event is not
\* retried; and a Publish inside its critical section can always take
\* that step, whatever the state of the mailboxes.
C15_FanOutPerSubscriber ==
    [][/\ \A p \in Pubs : ppc[p] = "locked" => ENABLED PublishAppend(p)
       /\ FanOutStep =>
            \A c \in Conns :
                mailbox'[c] = IF c \in subscribers /\ Len(mailbox[c]) < SubCap
                              THEN Append(mailbox[c], eventLog'[Len(eventLog')])
                              ELSE mailbox[c]
       /\ \A c \in Conns : Len(mailbox'[c]) > Len(mailbox[c]) => FanOutStep]_vars

\* C15 witness: both tabs are registered, the mailbox of c2 is full, and
\* c1 holds an event, newer than all in the mailbox of c2, that c2 did
\* not get.
C15_Witness ==
    /\ {"c1", "c2"} \subseteq subscribers
    /\ Len(mailbox["c2"]) = SubCap
    /\ overflow["c2"]
    /\ \E i \in 1..Len(mailbox["c1"]) :
        \A j \in 1..Len(mailbox["c2"]) : mailbox["c1"][i].seq > mailbox["c2"][j].seq

\* The events of one type the watcher has published for an id.
Count(type, id) ==
    Cardinality({i \in 1..Len(wOut) : wOut[i] = [type |-> type, id |-> id]})

\* C16, as stated: for an id whose completion line was processed while
\* it had an entry and before any of its timers fired, exactly one
\* permissionResolved and no permissionPrompt is ever published.
C16_ResolvedNoPrompt ==
    \A id \in ToolIds :
        early[id] # "no"
            => Count("permissionResolved", id) = 1 /\ Count("permissionPrompt", id) = 0

\* C16, amended: the same, as long as no later tool_use line has
\* registered the id again; further completion lines and the timers of
\* earlier entries of the id publish nothing.
C16_ResolvedNoPromptUntilReused ==
    \A id \in ToolIds :
        early[id] = "yes"
            => Count("permissionResolved", id) = 1 /\ Count("permissionPrompt", id) = 0

\* C16 witness: an id was resolved in time, the time of its stopped timer
\* has passed, and a second completion line for it has been processed.
C16_Witness ==
    \E r \in 1..Len(timers) :
        /\ early[timers[r].id] = "yes"
        /\ timers[r].st = "stopped"
        /\ now > timers[r].due
        /\ wline = [kind |-> "result", id |-> timers[r].id]
        /\ wpending[timers[r].id] = 0
        /\ nlines = MaxLines

\* C17: for an id for which no completion line was ever processed in
\* time, once a timer of the id has fired and all its callbacks are over,
\* exactly one permissionPrompt has been published for it, as long as no
\* completion has removed the entry.
C17_ExactlyOnePrompt ==
    \A id \in ToolIds :
        (/\ wpending[id] # 0
         /\ Count("permissionResolved", id) = 0
         /\ \E r \in TimersOf(id) : timers[r].st = "done"
         /\ \A r \in TimersOf(id) : timers[r].st \in {"done", "stopped"})
            => Count("permissionPrompt", id) = 1

\* A line of one kind is processed for an id.
Processes(kind, id) == nlines' = nlines + 1 /\ wline' = [kind |-> kind, id |-> id]

\* A timer callback publishes its prompt.
PromptStep == Len(wOut') = Len(wOut) + 1 /\ wOut'[Len(wOut')].type = "permissionPrompt"

\* C18: when a prompt is published its entry is registered and stays so;
\* a completion line processed while the entry is registered publishes
\* one permissionResolved for the id, and nothing else, and removes the
\* entry; a completion line for an id without an entry publishes nothing.
C18_LateCompletionResolves ==
    [][\A id \in ToolIds :
        /\ (PromptStep /\ wOut'[Len(wOut')].id = id)
            => (wpending[id] # 0 /\ wpending'[id] = wpending[id])
        /\ (Processes("result", id) /\ wpending[id] # 0)
            => /\ wOut' = Append(wOut, [type |-> "permissionResolved", id |-> id])
               /\ wpending'[id] = 0
        /\ (Processes("result", id) /\ wpending[id] = 0)
            => (wOut' = wOut /\ wpending' = wpending)]_vars

\* The newline-terminated lines of a byte sequence, in order, without
\* those that are only a newline.
RECURSIVE CompleteLines(_)
CompleteLines(f) ==
    LET i == NextNewline(f, 0) IN
    IF i = 0 THEN <<>>
    ELSE (IF i = 1 THEN <<>> ELSE <<SubSeq(f, 1, i)>>) \o CompleteLines(SubSeq(f, i + 1, Len(f)))

\* s is the beginning of t.
IsPrefix(s, t) == Len(s) <= Len(t) /\ s = SubSeq(t, 1, Len(s))

\* The bytes appended since the watch started.
Appended == SubSeq(wfile, wstart + 1, Len(wfile))

\* C19: the lines processed are at every moment the first of the
\* newline-terminated lines appended since the watch started, in file
\* order and each once, and after a poll they are all of them, however
\* the appends fall between the polls.
C19_ProcessesCompleteLines ==
    wstarted =>
        /\ IsPrefix(wproc, CompleteLines(Appended))
        /\ polled => wproc = CompleteLines(Appended)

\* C20: the read loop that has read a message frame gets through
\* PushMessage to the Publish of the frame's userMessage: it is never
\* held at the send of PushMessage with the queue full.
C20_FrameReachesPublish ==
    \A p \in Producers : frame[TabOf(p)] = "push" => ~Blocked(p)


\* The number of places a message is in: the queue, a PushMessage call
\* that has not sent it yet, the batch a consumer is collecting, the
\* batches returned so far, the entries removed from a full queue.
Occurrences(q, m) == Cardinality({i \in 1..Len(q) : q[i] = m})

Places(m) ==
    Occurrences(msgQueue, m) + Occurrences(msgs, m) + delivered[m]
    + Cardinality({p \in Producers : qpc[p] # "idle" /\ qmsg[p] = m})
    + (IF m \in dropped THEN 1 ELSE 0)

\* C28: a WaitForMessages call that has returned messages returned a
\* non-empty batch; at its first select with the queue empty it cannot
\* proceed; with no producer touching the queue meanwhile the batch is
\* the whole queue as the first receive found it, in queue order, and the
\* call returns with the queue empty; every message pushed so far is in
\* exactly one place, so none is returned by two calls or twice by one,
\* and one that is gone from the queue and was not removed by a full
\* PushMessage has been returned by exactly one call.
C28_WaitReturnsBatchOnce ==
    /\ lastDrain.call = "wait" => lastDrain.result # <<>>
    /\ (dpc = "wait" /\ msgQueue = <<>>) => ~ENABLED WaitForMessages
    /\ (lastDrain.call = "wait" /\ lastDrain.alone) => lastDrain.result = lastDrain.snap
    /\ lastDrain.call = "wait" => lastDrain.left = <<>>
    /\ \A m \in 1..MaxPush : Places(m) = (IF m <= pushed THEN 1 ELSE 0)

\* C28 witness: a WaitForMessages call has returned two messages, a
\* DrainMessages call has returned another, and one was removed by a
\* PushMessage that found the queue full.
C28_Witness ==
    /\ lastDrain.call = "wait" /\ Len(lastDrain.result) = 2
    /\ \E m \in 1..MaxPush : delivered[m] = 1 /\ m \notin Range(lastDrain.result)
    /\ dropped # {}

\* The step on which goroutine p returns from writeToLog, and so from
\* Publish or LogUserMessage.
Returns(p) == ppc[p] = "write" /\ ppc'[p] = "idle" /\ restarts' = restarts

\* C27: with the log file open, the step on which Publish or
\* LogUserMessage returns appends exactly one whole line, the event's, to
\* the file.
C27_OneLinePerCall ==
    [][\A p \in Pubs :
          (Returns(p) /\ logOpen)
              => \E how \in {"ok", "oversize"} : logFile' = logFile \o Written(pev[p], how)]_vars

\* The events of the lines of a file, in the order of the lines.
Persisted(lines) == [i \in 1..Len(lines) |-> Unmarshal(lines[i])]

\* C26: a bus constructed on a file of whole lines, each within the
\* scanner's buffer, returns from EventsSince(0) the event of every line,
\* published or log-only, in the order of the lines.
C26_ReloadReturnsAll ==
    (restarts > 0 /\ \A i \in 1..Len(baseFile) : baseFile[i].kind = "json")
        => EventsSince(SubSeq(eventLog, 1, baseLen), 0) = Persisted(baseFile)

\* The positions of the events of a log that carry quick replies.
Carriers(log) == {i \in 1..Len(log) : log[i].qr # <<>>}

LastCarrier(log) == CHOOSE i \in Carriers(log) : \A j \in Carriers(log) : j <= i

\* The quick replies in force after the events of a log: those of the
\* last event that carries any, unless a userMessage is at or after it.
InForce(log) ==
    IF Carriers(log) = {} THEN <<>>
    ELSE IF \E j \in LastCarrier(log)..Len(log) : log[j].type = "userMessage" THEN <<>>
    ELSE log[LastCarrier(log)].qr

\* The step of Publish that appends event e to the log.
Appends(e) == eventLog' = Append(eventLog, e)

\* C24: eb.lastQuickReplies is the quick-reply list of the last published
\* event that carried one, and empty when a userMessage was published at
\* or after that event or no event carried one; publishing an event that
\* has no quick replies and is not a userMessage leaves it as it was.
C24_LastQuickReplies ==
    /\ [](lastQuickReplies = InForce(eventLog))
    /\ [][\A p \in Pubs :
            (Appends(pev'[p]) /\ pev'[p].qr = <<>> /\ pev'[p].type # "userMessage")
                => lastQuickReplies' = lastQuickReplies]_vars

\* C24 witness: an event with quick replies, then one without that is no
\* userMessage, and the quick replies of the first are in force.
C24_Witness ==
    /\ Len(eventLog) = 2
    /\ eventLog[1].qr = <<"a">> /\ eventLog[1].type = "agentMessage"
    /\ eventLog[2].qr = <<>> /\ eventLog[2].type = "agentMessage"
    /\ lastQuickReplies = <<"a">>

\* The bus built by the restart has handled no call yet.
FreshBus == restarts > 0 /\ Len(eventLog) = baseLen /\ \A p \in Pubs : ppc[p] = "idle"

\* C25: a bus built on the file of a bus that stopped with no call
\* running, every Write having succeeded, starts with the
\* lastQuickReplies the old bus had when it stopped.
C25_ReloadKeepsQuickReplies ==
    (FreshBus /\ atStop.clean) => lastQuickReplies = atStop.qr

\* The step on which the read loop of tab c returns from ResolveAck for
\* an ack frame whose id was found in the registry.
AckResolved(c) == frame[c] = "ack" /\ frame'[c] = "reply" /\ rok[ResolverOf(c)]

\* The step on which the read loop of tab c returns from the Publish
\* that follows ResolveAck.
AckPublished(c) == frame[c] = "reply" /\ frame'[c] = "none"

\* C22: for an ack frame whose id is pending, ResolveAck sends one result
\* on the ack's channel: "ack" exactly when the frame's message is empty,
\* and otherwise a result from which the tool handler takes the message
\* unchanged; what the waiter reads is what was sent; and by the time the
\* read loop has handled the frame it has published one userMessage event
\* whose text is the message.
C22_AckFrame ==
    /\ [](\A t \in Tokens : await[t] = "got" => got[t] = sentOn[t])
    /\ [][\A c \in Conns :
            LET t == fack[c].id
                m == fack[c].message
                res == sentOn'[t][Len(sentOn'[t])]
                e == pev[PublisherOf(c)] IN
            /\ AckResolved(c)
                 => /\ Len(sentOn'[t]) = Len(sentOn[t]) + 1
                    /\ (res = "ack") <=> (m = "")
                    /\ m # "" => res = "ack:" \o m
                    /\ ReplyOf(res) = m
            /\ AckPublished(c)
                 => /\ e.type = "userMessage" /\ e.text = m
                    /\ Cardinality({i \in 1..Len(eventLog) : eventLog[i] = e}) = 1
                    /\ e \in published]_vars

\* C22 witness: the waiter has read "ack:ok", sent for tab 1's ack frame
\* with message "ok", and both tabs have received the userMessage event
\* with that text.
C22_Witness ==
    /\ await[1] = "got" /\ got[1] = <<"ack:ok">>
    /\ frame["c1"] = "none" /\ fack["c1"] = [id |-> 1, message |-> "ok"]
    /\ \A c \in Conns : \E i \in 1..Len(received[c]) :
          received[c][i].type = "userMessage" /\ received[c][i].text = "ok"

\* The step on which the handler of tab c writes the connected frame.
Connects(c) == cpc[c] = "closed" /\ cpc'[c] = "connected"

\* C23: the first frame written on a new connection is the connected
\* frame; it has a pendingAckId, the id of a pending ack, exactly when
\* eb.pending is not empty at that moment, and it has the bus's quick
\* replies when eb.lastQuickReplies is not empty.
C23_Handshake ==
    [][\A c \in Conns :
          Connects(c)
              => LET h == wire'[c][1] IN
                 /\ Len(wire'[c]) = 1 /\ h.type = "connected"
                 /\ pending # {} => ("pendingAckId" \in h.has /\ h.pendingAckId \in pending)
                 /\ pending = {} => "pendingAckId" \notin h.has
                 /\ lastQuickReplies # <<>> => "quickReplies" \in h.has]_vars

\* The step on which the read loop of tab c has handled an accepted
\* message frame: it is past the send of the notice.
Notified(c) == frame[c] = "notify" /\ frame'[c] = "none"

\* C21: when the read loop of a connection has handled an accepted
\* message frame, one messageQueued notice for it is on its way to that
\* connection, by way of its writeCh, and nothing is on its way to, or
\* written to, any other connection.
C21_OneNoticePerFrame ==
    [][\A c \in Conns :
          Notified(c)
              => /\ writeCh'[c] = Append(writeCh[c], "messageQueued")
                 /\ \A o \in Conns \ {c} : writeCh'[o] = writeCh[o] /\ wire'[o] = wire[o]]_vars

(* ------------------- the end of a connection's tasks ------------------- *)

\* The writer goroutine takes an event it does not skip from sub, or a
\* notice from writeCh, and conn.WriteMessage returns an error: the
\* goroutine returns. The read loop goes on until its own read fails.
WriterFail(c) ==
    /\ cpc[c] = "live"
    /\ wtr[c] = "run"
    /\ \E from \in {"sub", "writeCh"} :
          IF from = "sub"
            THEN /\ mailbox[c] # <<>>
                 /\ ~Skips(Head(mailbox[c]), highSeq[c])
                 /\ mailbox' = [mailbox EXCEPT ![c] = Tail(@)]
                 /\ UNCHANGED writeCh
            ELSE /\ writeCh[c] # <<>>
                 /\ writeCh' = [writeCh EXCEPT ![c] = Tail(@)]
                 /\ UNCHANGED mailbox
    /\ wtr' = [wtr EXCEPT ![c] = "done"]
    /\ UNCHANGED <<orphan, wire, received, frameVars, replyVars, watchVars, ackVars, queueVars, waitVars, waitHist,
                   eventLog, nextSeq, mu, subscribers, logOpen, envVars, pubVars,
                   cpc, cursor, missed, highSeq, connStart, histVars>>

\* One tab that connects, sends message frames, loses its connection and
\* connects again, while the agent publishes.
NextClose ==
    \/ Connect("c1", 0)
    \/ Subscribe("c1")
    \/ ReadHistory("c1")
    \/ ReplayWrite("c1")
    \/ StartWriter("c1")
    \/ WriterStep("c1")
    \/ WriterNotice("c1")
    \/ WriterFail("c1")
    \/ FrameRead("c1")
    \/ FrameNotify("c1")
    \/ (frame["c1"] = "read" /\ PushMessage("q1"))
    \/ (frame["c1"] = "publish" /\ PublishLock("p1"))
    \/ PublishLock("p2")
    \/ \E p \in Pubs : PublishAppend(p)
    \/ \E p \in Pubs : WriteToLog(p, {"ok"})
    \/ (frame["c1"] = "none" /\ Disconnect("c1"))
    \/ Unsubscribe("c1")
    \/ WriterAfterClose("c1")

SpecClose == InitLog /\ [][NextClose]_vars

\* In the frames written to a connection, those of the handler come
\* before those of the writer goroutine.
HandlerFirst(w) ==
    \A i, j \in 1..Len(w) : (w[i].by = "handler" /\ w[j].by = "writer") => i < j

\* The last frame written to a connection.
LastFrame(w) == w[Len(w)]

\* C29: no two tasks write to one connection at a time. The connected
\* frame and the replayed events are written by the handler while the
\* connection's writer goroutine has not been started; every later frame,
\* live event or messageQueued notice, is written by the writer goroutine
\* while it runs, and the read loop writes none.
C29_SingleWriter ==
    /\ [](\A c \in Conns :
            /\ HandlerFirst(wire[c])
            /\ \A i \in 1..Len(wire[c]) :
                  /\ (i = 1) <=> (wire[c][i].type = "connected")
                  /\ wire[c][i].type = "connected" => wire[c][i].by = "handler"
                  /\ wire[c][i].type = "messageQueued" => wire[c][i].by = "writer")
    /\ [][\A c \in Conns :
            wire'[c] # wire[c]
                => /\ LastFrame(wire'[c]).by = "handler" => wtr'[c] = "none"
                   /\ LastFrame(wire'[c]).by = "writer"
                         => (wtr[c] = "run" /\ cpc[c] = "live" /\ frame'[c] = frame[c])]_vars

\* A connection has been sent the connected frame and a replayed event by
\* the handler, then a live event and a notice by the writer goroutine.
C29_Witness ==
    \E i, j, k \in 1..Len(wire["c1"]) :
        /\ wire["c1"][1].type = "connected"
        /\ wire["c1"][i] = EventFrame("handler")
        /\ wire["c1"][j] = EventFrame("writer")
        /\ wire["c1"][k] = NoticeFrame("writer")

\* The handler of tab c has returned and its subscriber is off the bus,
\* while its writer goroutine still waits in its select on two channels
\* that hold nothing and that nobody sends on or closes any more.
WriterLeftBlocked(c) ==
    /\ cpc[c] = "closed"
    /\ c \notin subscribers
    /\ wtr[c] = "run"
    /\ orphan[c] = 0

\* C30: once a connection's transport has failed or closed, its
\* subscriber is removed from the bus and its read loop and its writer
\* both come to an end: no closed connection leaves its writer blocked
\* for ever.
C30_TasksEnd == \A c \in Conns : ~WriterLeftBlocked(c)

(* ------------------------ the log-only user message -------------------- *)

\* A bus with a subscribed tab, a pending ack, a queued browser message
\* and quick replies in force, on which the agent's tools publish and log
\* user messages; every Write to the file succeeds.
NextLogOnly ==
    \/ Connect("c1", 0)
    \/ Subscribe("c1")
    \/ CreateAck
    \/ (pushed = 0 /\ PushMessage("q2"))
    \/ \E k \in Untexted : PublishLockWith("p1", k)
    \/ PublishAppend("p1")
    \/ \E p \in Pubs : LogUserMessage(p)
    \/ \E p \in Pubs : WriteToLog(p, {"ok"})

SpecLogOnly == InitLog /\ [][NextLogOnly]_vars

\* The step on which goroutine p runs LogUserMessage up to its unlock.
LogsOnly(p) == ppc[p] = "idle" /\ ppc'[p] = "write"

\* C32: LogUserMessage appends one userMessage event with sequence number
\* 0 to the event log, and its line to the log file, and changes nothing
\* else: no subscriber's channel gets the event, and the sequence counter,
\* lastQuickReplies, the ack registry and the message queue stay as they
\* were.
C32_LogOnlyEffect ==
    [][\A p \in Pubs :
          /\ LogsOnly(p)
                => /\ pev'[p].seq = 0 /\ pev'[p].type = "userMessage"
                   /\ eventLog' = Append(eventLog, pev'[p])
                   /\ UNCHANGED <<mailbox, subscribers, nextSeq, lastQuickReplies,
                                  pending, ackCh, msgQueue, logFile>>
          /\ (Returns(p) /\ pev[p].seq = 0)
                => /\ logFile' = Append(logFile, Marshal(pev[p]))
                   /\ UNCHANGED <<eventLog, mailbox, subscribers, nextSeq, lastQuickReplies,
                                  pending, ackCh, msgQueue>>]_vars

\* A LogUserMessage call has returned on a bus that has a subscriber with
\* an empty channel, a pending ack, a queued message and quick replies in
\* force.
C32_Witness ==
    /\ \E i \in 1..Len(eventLog) : eventLog[i].seq = 0 /\ eventLog[i].id \in returned
    /\ \E i \in 1..Len(logFile) : logFile[i].seq = 0
    /\ "c1" \in subscribers /\ mailbox["c1"] = <<>>
    /\ pending # {} /\ msgQueue # <<>> /\ lastQuickReplies # <<>>

(* --------------------- a blocking tool's publish ----------------------- *)

\* A blocking tool (send_message, send_verbal_reply, draw): it calls
\* WaitForSubscriber and, when that returns nil, Publish, while a tab
\* connects and leaves.
NextTool ==
    \/ WaitForSubscriber
    \/ WaitPoll
    \/ WaitSelect
    \/ Tick
    \/ Cancel("sub")
    \/ Connect("c1", 0)
    \/ Subscribe("c1")
    \/ Disconnect("c1")
    \/ Unsubscribe("c1")
    \/ (wres = "ok" /\ pubCount = 0 /\ PublishLock("p2"))
    \/ PublishAppend("p2")
    \/ WriteToLog("p2", {"ok"})

SpecTool == InitLog /\ [][NextTool]_vars

\* The step on which goroutine p, inside Publish, appends its event and
\* runs the fan-out loop.
FansOut(p) == ppc[p] = "locked" /\ ppc'[p] = "write"

\* C35: when a blocking tool publishes its event after WaitForSubscriber
\* has returned nil, at least one subscriber is registered on the bus at
\* the moment of the Publish.
C35_PublishHasSubscriber ==
    [][(FansOut("p2") /\ wres = "ok") => subscribers # {}]_vars

\* The state of the bus that is shared between its callers.
BusState == <<subscribers, mailbox, pending, ackCh, eventLog, nextSeq, lastQuickReplies,
              msgQueue, logFile>>

\* C36: a WaitForSubscriber or WaitForMessages call that returns a
\* cancellation or timeout error leaves the bus as it was: none of its
\* steps changes the subscriber set, the ack registry, the event log, the
\* sequence counter or the queue, and the call has taken no message.
C36_FailedWaitNoEffect ==
    [][/\ wpc' # wpc => UNCHANGED BusState
       /\ (dpc = "idle" /\ dpc' = "wait") => UNCHANGED BusState
       /\ (dpc = "wait" /\ mres' = "cancelled")
             => (UNCHANGED BusState /\ msgs = <<>> /\ delivered' = delivered /\ dropped' = dropped)]_vars

\* Both calls have returned the cancellation error while a message was
\* queued and an ack was pending, and the message is still queued.
C36_Witness ==
    /\ wpc = "done" /\ wres = "cancelled"
    /\ dpc = "idle" /\ mres = "cancelled"
    /\ msgQueue = <<1>> /\ pending # {}

\* Token t was given up by its waiter and no ResolveAck call has looked
\* it up since.
GivenUp(t) ==
    /\ await[t] = "cancelled"
    /\ \A r \in Resolvers : ~(rpc[r] = "unlocked" /\ rtok[r] = t)
    /\ \A k \in calls : k.tok # t

\* The step on which resolver r returns from ResolveAck.
ResolveReturns(r) == rpc[r] = "unlocked" /\ rpc'[r] = "idle"

\* C33: after the waiter of an ack was cancelled its entry stays in the
\* registry, and PendingAckID may report it; the first ResolveAck with its
\* token then finds and removes the entry, returns true without blocking
\* although nobody reads the channel, and changes nothing else on the bus.
C33_CancelledAckResolves ==
    /\ [](\A t \in Tokens : GivenUp(t) => (t \in pending /\ t \in PendingAckIDs(pending)))
    /\ [](\A r \in Resolvers : rpc[r] = "unlocked" => ENABLED ResolveAckReturn(r))
    /\ [][\A r \in Resolvers :
            /\ (rpc[r] = "idle" /\ rpc'[r] = "unlocked" /\ GivenUp(rtok'[r]))
                  => (rok'[r] /\ rtok'[r] \notin pending'
                      /\ UNCHANGED <<subscribers, mailbox, eventLog, nextSeq,
                                     lastQuickReplies, msgQueue, logFile>>)
            /\ (ResolveReturns(r) /\ await[rtok[r]] = "cancelled" /\ rok[r])
                  => (\E k \in calls' \ calls : k.tok = rtok[r] /\ k.ret
                      /\ got' = got /\ pending' = pending
                      /\ UNCHANGED <<subscribers, mailbox, eventLog, nextSeq,
                                     lastQuickReplies, msgQueue, logFile>>)]_vars

\* The waiter of token 1 was cancelled, and a ResolveAck with that token
\* has then returned true and left the registry empty.
C33_Witness ==
    /\ await[1] = "cancelled"
    /\ \E k \in calls : k.tok = 1 /\ k.ret
    /\ pending = {} /\ got[1] = <<>> /\ sentOn[1] # <<>>

(* ------------------- ack frames for ids not pending -------------------- *)

\* The agent's events that carry quick replies.
WithReplies == {k \in Untexted : k.type = "agentMessage" /\ k.qr # <<>>}

\* The draw tool may create an ack and publishes an event with quick
\* replies; one tab sends two ack frames, each with any id and message,
\* before the ack exists, while it is pending or after it was resolved.
NextAckReply ==
    \/ CreateAck
    \/ \E t \in Tokens : WaiterReceive(t)
    \/ (connects["c1"] = 0 /\ Connect("c1", 0))
    \/ Subscribe("c1")
    \/ ReadHistory("c1")
    \/ ReplayWrite("c1")
    \/ StartWriter("c1")
    \/ WriterStep("c1")
    \/ \E k \in WithReplies : (pubCount = 0 /\ PublishLockWith("p2", k))
    \/ \E tok \in Tokens : \E m \in Texts : (resolves <= 1 /\ AckFrameRead("c1", tok, m))
    \/ (frame["c1"] = "ack" /\ ResolveAckLookup("r1", fack["c1"].id, AckResult(fack["c1"].message)))
    \/ ResolveAckReturn("r1")
    \/ (frame["c1"] = "reply" /\ PublishLockWith("p1", AckReply(fack["c1"].message)))
    \/ \E p \in Pubs : PublishAppend(p)
    \/ \E p \in Pubs : WriteToLog(p, {"ok"})

SpecAckReply == InitLog /\ [][NextAckReply]_vars

\* C40: the read loop drops the value of ResolveAck. Every ack frame with
\* an id leads to one Publish of a userMessage event whose text is the
\* frame's message, and that Publish clears lastQuickReplies; this is so
\* also when the id is not pending, in which case nothing is sent to any
\* waiter and the registry is left alone.
C40_AckFrameAlwaysPublishes ==
    [][\A c \in Conns :
          LET r == ResolverOf(c)
              p == PublisherOf(c) IN
          /\ frame[c] = "ack" => frame'[c] \in {"ack", "reply"}
          /\ (frame[c] = "ack" /\ frame'[c] = "reply" /\ ~rok[r])
                => (sentOn' = sentOn /\ ackCh' = ackCh /\ pending' = pending /\ got' = got)
          /\ (frame[c] = "reply" /\ FansOut(p))
                => /\ pev'[p].type = "userMessage"
                   /\ pev'[p].text = fack[c].message
                   /\ eventLog' = Append(eventLog, pev'[p])
                   /\ lastQuickReplies' = <<>>
          /\ (frame[c] = "reply" /\ frame'[c] # "reply")
                => /\ frame'[c] = "none"
                   /\ Returns(p)
                   /\ Cardinality({i \in 1..Len(eventLog) : eventLog[i].id = pev[p].id}) = 1]_vars

\* The tab has sent an ack frame for an id that was not pending, with
\* message "ok", while quick replies were in force: ResolveAck returned
\* false, and the userMessage event was published and cleared them.
C40_Witness ==
    /\ frame["c1"] = "none"
    /\ \E k \in calls : ~k.ret
    /\ sentOn = [t \in Tokens |-> <<>>]
    /\ Len(eventLog) = 2
    /\ eventLog[1].qr # <<>>
    /\ eventLog[2].type = "userMessage" /\ eventLog[2].text = "ok" /\ eventLog[2].id \in returned
    /\ lastQuickReplies = <<>>

(* ------------------------ the watcher's shutdown ----------------------- *)

\* The watcher processes lines, its timers fire, and its context is
\* cancelled at any moment.
NextShutdown ==
    \/ \E k \in Kinds : \E id \in ToolIds : ProcessLine(k, id)
    \/ \E r \in 1..MaxLines : TimerFire(r)
    \/ \E r \in 1..MaxLines : TimerCheck(r)
    \/ \E r \in 1..MaxLines : TimerPublish(r)
    \/ Tick
    \/ ClearPending

SpecShutdown == InitLog /\ [][NextShutdown]_vars

\* C37: once Run has cleared its pending entries on cancellation, the
\* pending map is empty and stays so, and the watcher publishes no event
\* any more, for any tool invocation that was pending.
C37_NothingAfterShutdown ==
    /\ [](wstopped => \A id \in ToolIds : wpending[id] = 0)
    /\ [][wstopped => wOut' = wOut]_vars

\* The positions of the watcher's events of one type for an id.
At(type, id) == {i \in 1..Len(wOut) : wOut[i] = [type |-> type, id |-> id]}

\* C38: for a tool-invocation id that is registered once, no
\* permissionPrompt event is published after the permissionResolved event
\* of the id.
C38_NoPromptAfterResolved ==
    \A id \in ToolIds :
        uses[id] <= 1
            => \A i \in At("permissionResolved", id) :
                  \A j \in At("permissionPrompt", id) : j < i

(* --------------------------- the bus's locks --------------------------- *)

\* writeToLog, "eb.logMu.Lock()": the goroutine is inside writeToLog and
\* holds eb.logMu; the disk may keep it there for any time.
WriteToLogLock(p) ==
    /\ ppc[p] = "write"
    /\ LogFree
    /\ ppc' = [ppc EXCEPT ![p] = "writing"]
    /\ UNCHANGED <<wireVars, frameVars, replyVars, watchVars, ackVars, queueVars, waitVars, waitHist, busVars, envVars, pev, pubCount, connVars, histVars>>

\* writeToLog, the rest: the Write and the Sync come back, the deferred
\* eb.logMu.Unlock() runs and Publish or LogUserMessage returns.
WriteToLogWrite(p, hows) ==
    /\ ppc[p] = "writing"
    /\ \E how \in hows :
        logFile' = IF logOpen THEN logFile \o Written(pev[p], how) ELSE logFile
    /\ ppc' = [ppc EXCEPT ![p] = "idle"]
    /\ pev' = [pev EXCEPT ![p] = NoEvent]
    /\ returned' = returned \cup {pev[p].id}
    /\ frame' = FrameAt(FrameAt(frame, TabOf(p), "publish", "notify"), TabOf(p), "reply", "none")
    /\ UNCHANGED <<wireVars, fack, replyVars, watchVars, ackVars, queueVars, waitVars, waitHist, busVars, durable, restarts, connects, pubCount, connVars,
                   published, baseLen, baseSeq, baseFile, owed, inWindow, seqAtSub, overflow>>

\* Close, under eb.logMu: the file is synced and closed and eb.logFile is
\* set to nil.
Close ==
    /\ logOpen
    /\ LogFree
    /\ logOpen' = FALSE
    /\ UNCHANGED <<wireVars, frameVars, replyVars, watchVars, ackVars, queueVars, waitVars, waitHist, eventLog, nextSeq, mu, subscribers, mailbox,
                   envVars, pubVars, connVars, histVars>>

\* Two goroutines that publish (tool handlers, read loops, the watcher's
\* processLine and its timer callbacks), a tab that subscribes, reads the
\* history and unsubscribes, an ack that is created and resolved, and
\* Close, in any interleaving, with a disk of any speed.
NextLocks ==
    \/ \E p \in Pubs : PublishLock(p)
    \/ \E p \in Pubs : PublishAppend(p)
    \/ \E p \in Pubs : LogUserMessage(p)
    \/ \E p \in Pubs : WriteToLogLock(p)
    \/ \E p \in Pubs : WriteToLogWrite(p, {"ok"})
    \/ Close
    \/ (connects["c1"] = 0 /\ Connect("c1", 0))
    \/ Subscribe("c1")
    \/ ReadHistory("c1")
    \/ (cpc["c1"] = "replay" /\ Disconnect("c1"))
    \/ Unsubscribe("c1")
    \/ CreateAck
    \/ (resolves = 0 /\ ResolveAckLookup("r1", 1, "ack"))
    \/ ResolveAckReturn("r1")

SpecLocks == InitLog /\ [][NextLocks]_vars

\* The locks of the bus that goroutine p holds.
HeldBy(p) ==
    (IF mu = p THEN {"mu"} ELSE {}) \cup (IF ppc[p] = "writing" THEN {"logMu"} ELSE {})

C39_FileInSeqOrder ==
    \A i, j \in 1..Len(logFile) :
        (i < j /\ logFile[i].seq > 0 /\ logFile[j].seq > 0) => logFile[i].seq < logFile[j].seq

(* ------------------- a dropped event and the replay -------------------- *)

\* Publish calls in a run in which a tab's channel overflows and then
\* takes a later event.
MaxBurst == 3

\* One bus lifetime, every log write succeeding: a publisher, and a tab
\* that reads slowly, loses its connection and reconnects with the
\* highest sequence number it has received.
NextDrop ==
    \/ PublishLockUpTo("p1", Plain, MaxBurst)
    \/ PublishAppend("p1")
    \/ WriteToLog("p1", {"ok"})
    \/ Connect("c1", LastSeen("c1"))
    \/ Subscribe("c1")
    \/ ReadHistory("c1")
    \/ ReplayWrite("c1")
    \/ StartWriter("c1")
    \/ WriterStep("c1")
    \/ Disconnect("c1")
    \/ Unsubscribe("c1")

SpecDrop == InitLog /\ [][NextDrop]_vars

\* C34: an event that was dropped for a tab because its channel was full
\* is delivered after all: once the tab has reconnected with the highest
\* sequence number it has received and that connection has written all it
\* has, with no drop on it, the tab has received every event published
\* so far.
C34_DroppedIsReplayed ==
    \A c \in Conns :
        (connects[c] >= 2 /\ Quiet(c) /\ ~overflow[c] /\ \A p \in Pubs : ppc[p] = "idle")
            => \A e \in published : e.id \in Ids(received[c])

=============================================================================
